---- MODULE Spec2Model ----
(***************************************************************************)
(* Steganography Studio: the steganographic codecs, the cryptographic      *)
(* envelope and the MD5 password search engine, as state machines.         *)
(*                                                                         *)
(* Strings are sequences of UTF-16 code units, buffers are sequences of    *)
(* bytes and binary strings are sequences of bits.  32-bit words are the   *)
(* signed 32-bit integers JavaScript's bitwise operators produce.          *)
(***************************************************************************)
EXTENDS Integers, Sequences, FiniteSets, TLC

(***************************************************************************)
(* 32-bit arithmetic (utils.ts, "Hashing Utilities").                      *)
(***************************************************************************)

Pow2(n) == <<1, 2, 4, 8, 16, 32, 64, 128, 256, 512, 1024, 2048, 4096, 8192, 16384, 32768,
            65536, 131072, 262144, 524288, 1048576, 2097152, 4194304, 8388608,
            16777216>>[n + 1]

\* The unsigned high and low 16-bit halves of a signed 32-bit word.
Hi16(x) == (x \div 65536) % 65536
Lo16(x) == x % 65536

\* ToInt32 of the word whose unsigned halves are h and l.
Word(h, l) == (IF h >= 32768 THEN h - 65536 ELSE h) * 65536 + l

\* a & b for two 4-bit values a and b, at place 16 * a + b + 1.
AndNibbles ==
  <<
    0, 0, 0, 0, 0, 0, 0, 0, 0, 0, 0, 0, 0, 0, 0, 0,
    0, 1, 0, 1, 0, 1, 0, 1, 0, 1, 0, 1, 0, 1, 0, 1,
    0, 0, 2, 2, 0, 0, 2, 2, 0, 0, 2, 2, 0, 0, 2, 2,
    0, 1, 2, 3, 0, 1, 2, 3, 0, 1, 2, 3, 0, 1, 2, 3,
    0, 0, 0, 0, 4, 4, 4, 4, 0, 0, 0, 0, 4, 4, 4, 4,
    0, 1, 0, 1, 4, 5, 4, 5, 0, 1, 0, 1, 4, 5, 4, 5,
    0, 0, 2, 2, 4, 4, 6, 6, 0, 0, 2, 2, 4, 4, 6, 6,
    0, 1, 2, 3, 4, 5, 6, 7, 0, 1, 2, 3, 4, 5, 6, 7,
    0, 0, 0, 0, 0, 0, 0, 0, 8, 8, 8, 8, 8, 8, 8, 8,
    0, 1, 0, 1, 0, 1, 0, 1, 8, 9, 8, 9, 8, 9, 8, 9,
    0, 0, 2, 2, 0, 0, 2, 2, 8, 8, 10, 10, 8, 8, 10, 10,
    0, 1, 2, 3, 0, 1, 2, 3, 8, 9, 10, 11, 8, 9, 10, 11,
    0, 0, 0, 0, 4, 4, 4, 4, 8, 8, 8, 8, 12, 12, 12, 12,
    0, 1, 0, 1, 4, 5, 4, 5, 8, 9, 8, 9, 12, 13, 12, 13,
    0, 0, 2, 2, 4, 4, 6, 6, 8, 8, 10, 10, 12, 12, 14, 14,
    0, 1, 2, 3, 4, 5, 6, 7, 8, 9, 10, 11, 12, 13, 14, 15
  >>

\* The bitwise AND of two 16-bit values, nibble by nibble.
And4(a, b, i) == AndNibbles[(16 * ((a \div Pow2(i)) % 16)) + ((b \div Pow2(i)) % 16) + 1]

And16(a, b) ==
  (And4(a, b, 0) + (16 * And4(a, b, 4))) + ((256 * And4(a, b, 8)) + (4096 * And4(a, b, 12)))

\* a | b = a + b - (a & b) and a ^ b = a + b - 2 (a & b), bit by bit.
Or16(a, b)  == (a + b) - And16(a, b)
Xor16(a, b) == (a + b) - (2 * And16(a, b))

\* x & y, x | y, x ^ y, ~x on signed 32-bit words.
BitAnd(x, y) == Word(And16(Hi16(x), Hi16(y)), And16(Lo16(x), Lo16(y)))
BitOr(x, y)  == Word(Or16(Hi16(x), Hi16(y)), Or16(Lo16(x), Lo16(y)))
BitXor(x, y) == Word(Xor16(Hi16(x), Hi16(y)), Xor16(Lo16(x), Lo16(y)))
BitNot(x)    == -x - 1

\* md5_safe_add without the carry of the low halves into the high halves.
md5_safe_add_without_carry(x, y) ==
  Word(((x \div 65536) + (y \div 65536)) % 65536, (Lo16(x) + Lo16(y)) % 65536)

\* md5_safe_add: addition modulo 2^32 on 16-bit halves.
md5_safe_add(x, y) ==
  LET lsw == Lo16(x) + Lo16(y)
      msw == (x \div 65536) + (y \div 65536) + (lsw \div 65536)
  IN  Word(msw % 65536, lsw % 65536)

\* md5_bit_rol: (num << cnt) | (num >>> (32 - cnt)), 0 < cnt < 32.
md5_bit_rol(num, cnt) ==
  LET swap == cnt >= 16
      h == IF swap THEN Lo16(num) ELSE Hi16(num)
      l == IF swap THEN Hi16(num) ELSE Lo16(num)
      c == IF swap THEN cnt - 16 ELSE cnt
      p == Pow2(c)
      q == Pow2(16 - c)
  IN  Word(((h * p) % 65536) + (l \div q), ((l * p) % 65536) + (h \div q))

\* x >>> cnt for 0 < cnt < 16.
ushr(x, cnt) ==
  Word(Hi16(x) \div Pow2(cnt),
       ((Hi16(x) % Pow2(cnt)) * Pow2(16 - cnt)) + (Lo16(x) \div Pow2(cnt)))

md5_cmn(q, a, b, x, s, t) ==
  md5_safe_add(md5_bit_rol(md5_safe_add(md5_safe_add(a, q), md5_safe_add(x, t)), s), b)

md5_ff(a, b, c, d, x, s, t) == md5_cmn(BitOr(BitAnd(b, c), BitAnd(BitNot(b), d)), a, b, x, s, t)
md5_gg(a, b, c, d, x, s, t) == md5_cmn(BitOr(BitAnd(b, d), BitAnd(c, BitNot(d))), a, b, x, s, t)
md5_hh(a, b, c, d, x, s, t) == md5_cmn(BitXor(BitXor(b, c), d), a, b, x, s, t)
md5_ii(a, b, c, d, x, s, t) == md5_cmn(BitXor(c, BitOr(b, BitNot(d))), a, b, x, s, t)

\* The 64 steps of core_md5's loop body, in source order: the round function,
\* the index of the message word, the rotation and the additive constant.
MD5Steps ==
  <<
      <<"ff", 0, 7, -680876936>>, <<"ff", 1, 12, -389564586>>, <<"ff", 2, 17, 606105819>>, <<"ff", 3, 22, -1044525330>>,
      <<"ff", 4, 7, -176418897>>, <<"ff", 5, 12, 1200080426>>, <<"ff", 6, 17, -1473231341>>, <<"ff", 7, 22, -45705983>>,
      <<"ff", 8, 7, 1770035416>>, <<"ff", 9, 12, -1958414417>>, <<"ff", 10, 17, -42063>>, <<"ff", 11, 22, -1990404162>>,
      <<"ff", 12, 7, 1804603682>>, <<"ff", 13, 12, -40341101>>, <<"ff", 14, 17, -1502002290>>, <<"ff", 15, 22, 1236535329>>,
      <<"gg", 1, 5, -165796510>>, <<"gg", 6, 9, -1069501632>>, <<"gg", 11, 14, 643717713>>, <<"gg", 0, 20, -373897302>>,
      <<"gg", 5, 5, -701558691>>, <<"gg", 10, 9, 38016083>>, <<"gg", 15, 14, -660478335>>, <<"gg", 4, 20, -405537848>>,
      <<"gg", 9, 5, 568446438>>, <<"gg", 14, 9, -1019803690>>, <<"gg", 3, 14, -187363961>>, <<"gg", 8, 20, 1163531501>>,
      <<"gg", 13, 5, -1444681467>>, <<"gg", 2, 9, -51403784>>, <<"gg", 7, 14, 1735328473>>, <<"gg", 12, 20, -1926607734>>,
      <<"hh", 5, 4, -378558>>, <<"hh", 8, 11, -2022574463>>, <<"hh", 11, 16, 1839030562>>, <<"hh", 14, 23, -35309556>>,
      <<"hh", 1, 4, -1530992060>>, <<"hh", 4, 11, 1272893353>>, <<"hh", 7, 16, -155497632>>, <<"hh", 10, 23, -1094730640>>,
      <<"hh", 13, 4, 681279174>>, <<"hh", 0, 11, -358537222>>, <<"hh", 3, 16, -722521979>>, <<"hh", 6, 23, 76029189>>,
      <<"hh", 9, 4, -640364487>>, <<"hh", 12, 11, -421815835>>, <<"hh", 15, 16, 530742520>>, <<"hh", 2, 23, -995338651>>,
      <<"ii", 0, 6, -198630844>>, <<"ii", 7, 10, 1126891415>>, <<"ii", 14, 15, -1416354905>>, <<"ii", 5, 21, -57434055>>,
      <<"ii", 12, 6, 1700485571>>, <<"ii", 3, 10, -1894986606>>, <<"ii", 10, 15, -1051523>>, <<"ii", 1, 21, -2054922799>>,
      <<"ii", 8, 6, 1873313359>>, <<"ii", 15, 10, -30611744>>, <<"ii", 6, 15, -1560198380>>, <<"ii", 13, 21, 1309151649>>,
      <<"ii", 4, 6, -145523070>>, <<"ii", 11, 10, -1120210379>>, <<"ii", 2, 15, 718787259>>, <<"ii", 9, 21, -343485551>>
  >>

\* One step: the register the source assigns is the first of the rotated
\* quadruple (a, d, c, b, a, ...), so the state rotates after every step.
MD5Step(st, x, k) ==
  LET e == MD5Steps[k]
      a == st[1]
      b == st[2]
      c == st[3]
      d == st[4]
      w == x[e[2] + 1]
      r == CASE e[1] = "ff" -> md5_ff(a, b, c, d, w, e[3], e[4])
             [] e[1] = "gg" -> md5_gg(a, b, c, d, w, e[3], e[4])
             [] e[1] = "hh" -> md5_hh(a, b, c, d, w, e[3], e[4])
             [] OTHER       -> md5_ii(a, b, c, d, w, e[3], e[4])
  IN  <<d, r, b, c>>

\* The registers after steps lo..hi of one block, applied in order.  The range
\* is halved, and the first half is bound as a value before the second half
\* runs on it, which keeps the evaluation shallow.
RECURSIVE MD5Range(_, _, _, _)
MD5Range(st, x, lo, hi) ==
  IF lo = hi THEN MD5Step(st, x, lo)
  ELSE LET mid == (lo + hi) \div 2
       IN  CHOOSE r \in {MD5Range(s, x, mid + 1, hi) : s \in {MD5Range(st, x, lo, mid)}} : TRUE

MD5Block(st, x) == MD5Range(st, x, 1, 64)

\* The bytes TextEncoder.encode writes for the scalar value cp.
utf8Bytes(cp) ==
  IF cp < 128 THEN <<cp>>
  ELSE IF cp < 2048 THEN <<192 + (cp \div 64), 128 + (cp % 64)>>
  ELSE IF cp < 65536
    THEN <<224 + (cp \div 4096), 128 + ((cp \div 64) % 64), 128 + (cp % 64)>>
  ELSE <<240 + (cp \div 262144), 128 + ((cp \div 4096) % 64), 128 + ((cp \div 64) % 64),
         128 + (cp % 64)>>

isHighSurrogate(c) == c >= 55296 /\ c <= 56319
isLowSurrogate(c) == c >= 56320 /\ c <= 57343

\* The bytes TextEncoder.encode writes for code unit k of str: a surrogate pair
\* is one scalar value, written at its first unit, and a lone surrogate is
\* written as U+FFFD.
utf8BytesAt(str, k) ==
  LET c == str[k]
  IN  IF isHighSurrogate(c) /\ k < Len(str) /\ isLowSurrogate(str[k + 1])
        THEN utf8Bytes(65536 + (c - 55296) * 1024 + (str[k + 1] - 56320))
      ELSE IF isLowSurrogate(c) /\ k > 1 /\ isHighSurrogate(str[k - 1]) THEN <<>>
      ELSE IF isHighSurrogate(c) \/ isLowSurrogate(c) THEN utf8Bytes(65533)
      ELSE utf8Bytes(c)

\* new TextEncoder().encode(str), code units from to upTo.
RECURSIVE utf8Encode(_, _, _)
utf8Encode(str, from, upTo) ==
  IF from > upTo THEN <<>>
  ELSE IF from = upTo THEN utf8BytesAt(str, from)
  ELSE utf8Encode(str, from, (from + upTo) \div 2)
         \o utf8Encode(str, ((from + upTo) \div 2) + 1, upTo)

stringToArrayBuffer(str) == utf8Encode(str, 1, Len(str))

\* str2binl: UTF-8 bytes packed little-endian into 32-bit words; holes of the
\* sparse array read as 0.  nwords is the length core_md5 gives the array.
ByteAt(bytes, i) == IF i + 1 <= Len(bytes) THEN bytes[i + 1] ELSE 0

PackWord(bytes, w, len) ==
  LET b(i) == IF 4 * w + i = len THEN 128 ELSE ByteAt(bytes, 4 * w + i)
  IN  Word(b(3) * 256 + b(2), b(1) * 256 + b(0))

\* core_md5's padded array: x[len >> 5] |= 0x80 << (len % 32);
\* x[(((len + 64) >>> 9) << 4) + 14] = len (len in bits).
MD5Padded(bytes) ==
  LET n == Len(bytes)
      lenIdx == (((8 * n + 64) \div 512) * 16) + 14
      xlen == lenIdx + 1
      nblocks == (xlen + 15) \div 16
  IN  [w \in 1..(16 * nblocks) |->
         IF w - 1 = lenIdx THEN 8 * n
         ELSE IF w - 1 <= n \div 4 THEN PackWord(bytes, w - 1, n)
         ELSE 0]

RECURSIVE MD5Blocks(_, _, _)
MD5Blocks(st, x, i) ==
  IF i >= Len(x) THEN st
  ELSE LET blk == [j \in 1..16 |-> x[i + j]]
           r == MD5Block(st, blk)
       IN  MD5Blocks(<<md5_safe_add(r[1], st[1]), md5_safe_add(r[2], st[2]),
                       md5_safe_add(r[3], st[3]), md5_safe_add(r[4], st[4])>>, x, i + 16)

core_md5(bytes) == MD5Blocks(<<1732584193, -271733879, -1732584194, 271733878>>, MD5Padded(bytes), 0)

\* hex_tab = "0123456789abcdef", as character codes.
HexTab == <<48, 49, 50, 51, 52, 53, 54, 55, 56, 57, 97, 98, 99, 100, 101, 102>>

\* binl2hex: every word little-endian, every byte as two lowercase hex digits.
binl2hex(binarray) ==
  [k \in 1..(8 * Len(binarray)) |->
     LET i == (k - 1) \div 2
         word == binarray[(i \div 4) + 1]
         byte == (word \div Pow2((i % 4) * 8)) % 256
     IN  IF k % 2 = 1 THEN HexTab[(byte \div 16) + 1] ELSE HexTab[(byte % 16) + 1]]

\* md5(s): the digest of the UTF-8 bytes of s as 32 lowercase hex digits.
md5(s) == binl2hex(core_md5(stringToArrayBuffer(s)))

(***************************************************************************)
(* MD4, MD2 and SHA-224 (utils.ts).                                        *)
(***************************************************************************)

\* md4_safe_add and md4_rol are md5_safe_add and md5_bit_rol line by line.
md4_safe_add(x, y) == md5_safe_add(x, y)
md4_rol(num, cnt) == md5_bit_rol(num, cnt)

\* The round functions of core_md4; none of them uses its argument s.
md4_ff(a, b, c, d, x, s) ==
  md4_safe_add(a, md4_safe_add(BitOr(BitAnd(b, c), BitAnd(BitNot(b), d)), x))
md4_gg(a, b, c, d, x, s) ==
  md4_safe_add(a, md4_safe_add(md4_safe_add(BitOr(BitOr(BitAnd(b, c), BitAnd(b, d)),
                                                  BitAnd(c, d)), x),
                               1518500249))
md4_hh(a, b, c, d, x, s) ==
  md4_safe_add(a, md4_safe_add(md4_safe_add(BitXor(BitXor(b, c), d), x), 1859775393))

\* The 48 steps of core_md4's loop body, in source order: the round function,
\* the index of the message word and the rotation.
MD4Steps ==
  <<
    <<"ff", 0, 3>>, <<"ff", 1, 7>>, <<"ff", 2, 11>>, <<"ff", 3, 19>>,
    <<"ff", 4, 3>>, <<"ff", 5, 7>>, <<"ff", 6, 11>>, <<"ff", 7, 19>>,
    <<"ff", 8, 3>>, <<"ff", 9, 7>>, <<"ff", 10, 11>>, <<"ff", 11, 19>>,
    <<"ff", 12, 3>>, <<"ff", 13, 7>>, <<"ff", 14, 11>>, <<"ff", 15, 19>>,
    <<"gg", 0, 3>>, <<"gg", 4, 5>>, <<"gg", 8, 9>>, <<"gg", 12, 13>>,
    <<"gg", 1, 3>>, <<"gg", 5, 5>>, <<"gg", 9, 9>>, <<"gg", 13, 13>>,
    <<"gg", 2, 3>>, <<"gg", 6, 5>>, <<"gg", 10, 9>>, <<"gg", 14, 13>>,
    <<"gg", 3, 3>>, <<"gg", 7, 5>>, <<"gg", 11, 9>>, <<"gg", 15, 13>>,
    <<"hh", 0, 3>>, <<"hh", 8, 9>>, <<"hh", 4, 11>>, <<"hh", 12, 15>>,
    <<"hh", 2, 3>>, <<"hh", 10, 9>>, <<"hh", 6, 11>>, <<"hh", 14, 15>>,
    <<"hh", 1, 3>>, <<"hh", 9, 9>>, <<"hh", 5, 11>>, <<"hh", 13, 15>>,
    <<"hh", 3, 3>>, <<"hh", 11, 9>>, <<"hh", 7, 11>>, <<"hh", 15, 15>>
  >>

\* One step: as in core_md5, the register assigned is the first of the rotated
\* quadruple.
MD4Step(st, x, k) ==
  LET e == MD4Steps[k]
      a == st[1]
      b == st[2]
      c == st[3]
      d == st[4]
      w == x[e[2] + 1]
      r == CASE e[1] = "ff" -> md4_rol(md4_ff(a, b, c, d, w, e[3]), e[3])
             [] e[1] = "gg" -> md4_rol(md4_gg(a, b, c, d, w, e[3]), e[3])
             [] OTHER       -> md4_rol(md4_hh(a, b, c, d, w, e[3]), e[3])
  IN  <<d, r, b, c>>

RECURSIVE MD4Range(_, _, _, _)
MD4Range(st, x, lo, hi) ==
  IF lo = hi THEN MD4Step(st, x, lo)
  ELSE LET mid == (lo + hi) \div 2
       IN  CHOOSE r \in {MD4Range(s, x, mid + 1, hi) : s \in {MD4Range(st, x, lo, mid)}} : TRUE

RECURSIVE MD4Blocks(_, _, _)
MD4Blocks(st, x, i) ==
  IF i >= Len(x) THEN st
  ELSE LET blk == [j \in 1..16 |-> x[i + j]]
           r == MD4Range(st, blk, 1, 48)
       IN  MD4Blocks(<<md4_safe_add(r[1], st[1]), md4_safe_add(r[2], st[2]),
                       md4_safe_add(r[3], st[3]), md4_safe_add(r[4], st[4])>>, x, i + 16)

\* core_md4 pads the array as core_md5 does.
core_md4(bytes) ==
  MD4Blocks(<<1732584193, -271733879, -1732584194, 271733878>>, MD5Padded(bytes), 0)

\* md4(s): the digest of the UTF-8 bytes of s as 32 lowercase hex digits.
md4(s) == binl2hex(core_md4(stringToArrayBuffer(s)))

\* The table S of core_md2 as the source lists it, 249 numbers; S[t] for a t
\* past its end is undefined, which ^ reads as 0.
MD2_S ==
  <<41, 46, 67, 201, 162, 216, 124, 1, 61, 54, 84, 161, 223, 253, 119, 159, 105, 190, 21,
    12, 137, 102, 218, 222, 57, 13, 171, 70, 29, 93, 11, 40, 172, 80, 19, 153, 22, 111, 8,
    142, 138, 7, 118, 182, 233, 147, 34, 23, 24, 122, 38, 199, 183, 177, 136, 35, 18, 56,
    232, 140, 215, 246, 193, 150, 48, 71, 17, 209, 10, 16, 149, 176, 101, 103, 231, 15, 239,
    78, 20, 210, 131, 235, 213, 238, 130, 28, 123, 181, 47, 204, 211, 189, 234, 106, 169,
    58, 197, 194, 81, 143, 85, 158, 224, 174, 163, 128, 125, 244, 14, 214, 245, 116, 200,
    225, 95, 195, 203, 76, 104, 94, 9, 86, 252, 89, 191, 155, 115, 68, 146, 178, 242, 160,
    151, 185, 114, 170, 63, 207, 4, 141, 205, 168, 100, 126, 30, 255, 148, 228, 97, 49, 134,
    117, 127, 113, 175, 27, 2, 73, 59, 110, 82, 62, 237, 251, 108, 26, 109, 64, 188, 55,
    184, 92, 221, 167, 212, 187, 230, 202, 33, 77, 65, 250, 132, 87, 226, 152, 165, 45, 25,
    196, 135, 157, 53, 133, 90, 186, 75, 1, 240, 5, 241, 179, 166, 129, 243, 247, 43, 217,
    120, 208, 6, 156, 39, 69, 3, 31, 219, 36, 107, 112, 144, 249, 229, 66, 227, 88, 164, 60,
    145, 206, 72, 180, 50, 42, 254, 91, 192, 248, 74, 139, 98, 96, 198, 32, 121, 154, 220,
    44, 52>>

MD2SAt(t) == IF t < Len(MD2_S) THEN MD2_S[t + 1] ELSE 0

\* core_md2, step k (from 0) of a double loop of 18 times 48 steps on the pair
\* <<X, t>>: X[j] = from[j] ^ S[t]; t = X[j], and t = (t + i) % 256 after the
\* last j of round i.
MD2Step(st, from, k) ==
  LET j == k % 48
      v == Xor16(from[j + 1], MD2SAt(st[2]))
  IN  <<[st[1] EXCEPT ![j + 1] = v], IF j = 47 THEN (v + (k \div 48)) % 256 ELSE v>>

\* The first double loop xors X itself (X[j] = X[j] ^ S[t]) ...
RECURSIVE MD2First(_, _, _)
MD2First(st, lo, hi) ==
  IF lo = hi THEN MD2Step(st, st[1], lo)
  ELSE LET mid == (lo + hi) \div 2
       IN  CHOOSE r \in {MD2First(s, mid + 1, hi) : s \in {MD2First(st, lo, mid)}} : TRUE

\* ... and the second reads x (X[j] = x[j] ^ S[t]).
RECURSIVE MD2Second(_, _, _, _)
MD2Second(st, x, lo, hi) ==
  IF lo = hi THEN MD2Step(st, x, lo)
  ELSE LET mid == (lo + hi) \div 2
       IN  CHOOSE r \in {MD2Second(s, x, mid + 1, hi) : s \in {MD2Second(st, x, lo, mid)}} :
             TRUE

\* core_md2(x, len) for the 32 numbers x: the first 16 numbers X holds at the
\* end.  A number the source reads past the end of an array counts as 0.
core_md2(x, len) ==
  LET X0 == [j \in 1..48 |-> x[((j - 1) % 16) + 1]]
      X1 == MD2First(<<X0, 0>>, 0, (18 * 48) - 1)[1]
      x1 == [j \in 1..Len(x) |-> IF j <= 16 THEN Xor16(x[j], X1[j + 32]) ELSE x[j]]
      checksum == SubSeq(x1, (16 - (len % 16)) + 1, Len(x1))
      C == [j \in 1..16 |-> IF j <= Len(checksum) THEN checksum[j] ELSE 0]
      x2 == [j \in 1..48 |-> IF j <= 16 THEN x1[j] ELSE C[((j - 1) % 16) + 1]]
      X2 == MD2Second(<<X1, 0>>, x2, 0, (18 * 48) - 1)[1]
  IN  [j \in 1..16 |-> X2[j]]

\* md2, the loop over the blocks of M from block i on.
RECURSIVE MD2Blocks(_, _, _)
MD2Blocks(C, M, i) ==
  IF 16 * i >= Len(M) THEN C
  ELSE CHOOSE r \in {MD2Blocks(X, M, i + 1) :
                       X \in {core_md2(C \o SubSeq(M, (16 * i) + 1, (16 * i) + 16), 16)}} : TRUE

\* md2(s): M is the UTF-8 bytes filled up to a multiple of 16 with the number
\* of bytes filled in (nothing is added to a multiple of 16), and binl2hex
\* takes each of the 16 numbers of C for a 32-bit word.
md2(s) ==
  LET utf8 == stringToArrayBuffer(s)
      len == Len(utf8)
      n == (len + 15) \div 16
      p == (n * 16) - len
      M == [k \in 1..(n * 16) |-> IF k <= len THEN utf8[k] ELSE p]
  IN  binl2hex(MD2Blocks([j \in 1..16 |-> 0], M, 0))

\* sha224_K, each constant as the signed 32-bit word it is added as.
sha224_K ==
  <<1116352408, 1899447441, -1245643825, -373957723, 961987163, 1508970993, -1841331548,
    -1424204075, -670586216, 310598401, 607225278, 1426881987, 1925078388, -2132889090,
    -1680079193, -1046744716, -459576895, -272742522, 264347078, 604807628, 770255983,
    1249150122, 1555081692, 1996064986, -1740746414, -1473132947, -1341970488, -1084653625,
    -958395405, -710438585, 113926993, 338241895, 666307205, 773529912, 1294757372,
    1396182291, 1695183700, 1986661051, -2117940946, -1838011259, -1564481375, -1474664885,
    -1035236496, -949202525, -778901479, -694614492, -200395387, 275423344, 430227734,
    506948616, 659060556, 883997877, 958139571, 1322822218, 1537002063, 1747873779,
    1955562222, 2024104815, -2067236844, -1933114872, -1866530822, -1538233109, -1090935817,
    -965641998>>

\* (x + y) | 0
Add32(x, y) == md5_safe_add(x, y)

\* x >>> n | x << (32 - n), 0 < n < 32
Rotr(x, n) == md5_bit_rol(x, 32 - n)

\* sha224_process, the message schedule: W[i] for i = lo .. hi appended to W.
RECURSIVE sha224Schedule(_, _, _)
sha224Schedule(W, lo, hi) ==
  IF lo = hi
    THEN LET w15 == W[(lo - 15) + 1]
             w2 == W[(lo - 2) + 1]
             s0 == BitXor(BitXor(Rotr(w15, 7), Rotr(w15, 18)), ushr(w15, 3))
             s1 == BitXor(BitXor(Rotr(w2, 17), Rotr(w2, 19)), ushr(w2, 10))
         IN  Append(W, Add32(Add32(W[(lo - 16) + 1], s0), Add32(W[(lo - 7) + 1], s1)))
  ELSE LET mid == (lo + hi) \div 2
       IN  CHOOSE r \in {sha224Schedule(s, mid + 1, hi) : s \in {sha224Schedule(W, lo, mid)}} :
             TRUE

\* sha224_process, one round on <<a, b, c, d, e, f, g, h>>.
sha224Round(st, W, i) ==
  LET a == st[1]
      b == st[2]
      c == st[3]
      e == st[5]
      f == st[6]
      g == st[7]
      S1 == BitXor(BitXor(Rotr(e, 6), Rotr(e, 11)), Rotr(e, 25))
      ch == BitXor(BitAnd(e, f), BitAnd(BitNot(e), g))
      temp1 == Add32(Add32(Add32(st[8], S1), Add32(ch, sha224_K[i + 1])), W[i + 1])
      S0 == BitXor(BitXor(Rotr(a, 2), Rotr(a, 13)), Rotr(a, 22))
      maj == BitXor(BitXor(BitAnd(a, b), BitAnd(a, c)), BitAnd(b, c))
      temp2 == Add32(S0, maj)
  IN  <<Add32(temp1, temp2), a, b, c, Add32(st[4], temp1), e, f, g>>

RECURSIVE sha224Rounds(_, _, _, _)
sha224Rounds(st, W, lo, hi) ==
  IF lo = hi THEN sha224Round(st, W, lo)
  ELSE LET mid == (lo + hi) \div 2
       IN  CHOOSE r \in {sha224Rounds(s, W, mid + 1, hi) : s \in {sha224Rounds(st, W, lo, mid)}} :
             TRUE

\* sha224_process(chunk, H): the H it leaves.
sha224_process(chunk, H) ==
  LET W == sha224Schedule(chunk, 16, 63)
      r == sha224Rounds(H, W, 0, 63)
  IN  [k \in 1..8 |-> Add32(H[k], r[k])]

RECURSIVE sha224Chunks(_, _, _)
sha224Chunks(H, words, i) ==
  IF 16 * i >= Len(words) THEN H
  ELSE CHOOSE r \in {sha224Chunks(H2, words, i + 1) :
                       H2 \in {sha224_process(SubSeq(words, (16 * i) + 1, (16 * i) + 16), H)}} :
         TRUE

\* The digits of Number.prototype.toString(16) for m >= 0 ...
RECURSIVE hexDigits(_)
hexDigits(m) ==
  IF m < 16 THEN <<HexTab[m + 1]>> ELSE Append(hexDigits(m \div 16), HexTab[(m % 16) + 1])

\* ... and n.toString(16) for a signed 32-bit n: a minus sign and the digits
\* of -n when n is negative.
toString16(n) ==
  IF n = -2147483647 - 1 THEN <<45, 56, 48, 48, 48, 48, 48, 48, 48>>
  ELSE IF n < 0 THEN <<45>> \o hexDigits(-n)
  ELSE hexDigits(n)

\* (`00000000${n.toString(16)}`).slice(-8)
sha224Word(n) ==
  LET padded == <<48, 48, 48, 48, 48, 48, 48, 48>> \o toString16(n)
  IN  SubSeq(padded, Len(padded) - 7, Len(padded))

\* sha224(str): the bytes packed big-endian into chunks of 16 words with the
\* bit 0x80 after them, the last chunk run through sha224_process once before
\* the loop when bytes.length % 64 >= 56 (it holds nothing but zeros then, and
\* is reset to zeros), the length in bits in its last word, and the first
\* seven words of H formatted one by one.
sha224(str) ==
  LET H0 == <<-1056596264, 914150663, 812702999, -150054599, -4191439, 1750603025, 1694076839,
              -1090891868>>
      bytes == stringToArrayBuffer(str)
      n == Len(bytes)
      numChunks == (n + 9 + 63) \div 64
      b(i) == IF i < n THEN bytes[i + 1] ELSE IF i = n THEN 128 ELSE 0
      words == [w \in 1..(16 * numChunks) |->
                  IF w = 16 * numChunks THEN 8 * n
                  ELSE Word(b(4 * (w - 1)) * 256 + b(4 * (w - 1) + 1),
                            b(4 * (w - 1) + 2) * 256 + b(4 * (w - 1) + 3))]
      H1 == IF n % 64 >= 56 THEN sha224_process([k \in 1..16 |-> 0], H0) ELSE H0
      H == sha224Chunks(H1, words, 0)
  IN  sha224Word(H[1]) \o sha224Word(H[2]) \o sha224Word(H[3]) \o sha224Word(H[4])
        \o sha224Word(H[5]) \o sha224Word(H[6]) \o sha224Word(H[7])

(***************************************************************************)
(* Password search engine (services/hashCrackerService.ts).                *)
(***************************************************************************)

\* Candidates one batch processes before yielding to the event loop.  The
\* source sets 5000; the model runs the same loop with a small batch.
BATCH_SIZE == 2

\* The longest maxLength a brute-force job of the model is started with.
MaxLen == 2

\* The batches of a job of more candidates than this are not followed: the
\* call is made and recorded, its run is left out.
MaxJob == 20

Min(a, b) == IF a <= b THEN a ELSE b

\* wordlist.split(/\r?\n/): the text is cut at every "\n" and at every "\r\n".
RECURSIVE SplitLines(_, _, _)
SplitLines(s, i, cur) ==
  IF i > Len(s) THEN <<cur>>
  ELSE IF s[i] = 10 THEN <<cur>> \o SplitLines(s, i + 1, <<>>)
  ELSE IF s[i] = 13 /\ i < Len(s) /\ s[i + 1] = 10 THEN <<cur>> \o SplitLines(s, i + 2, <<>>)
  ELSE SplitLines(s, i + 1, Append(cur, s[i]))

\* A filter that keeps the empty lines.
NonEmptyKeepsAll(seq) == seq

\* .filter(w => w.length > 0)
NonEmpty(seq) == SelectSeq(seq, LAMBDA w : Len(w) > 0)

\* The words of a dictionary job.
WordsOf(wordlist) == NonEmpty(SplitLines(wordlist, 1, <<>>))

\* String.prototype.trim over the white space of the model's alphabet.
WhiteSpace == {9, 10, 11, 12, 13, 32}

Trim(w) ==
  LET keep == {i \in 1..Len(w) : w[i] \notin WhiteSpace}
  IN  IF keep = {} THEN <<>>
      ELSE LET lo == CHOOSE i \in keep : \A j \in keep : i <= j
               hi == CHOOSE i \in keep : \A j \in keep : j <= i
           IN  SubSeq(w, lo, hi)

\* calculateBruteForceCombinations: the sum of |charset|^i for i in 1..maxLength.
RECURSIVE PowerSum(_, _)
PowerSum(n, k) == IF k <= 0 THEN 0 ELSE n * (1 + PowerSum(n, k - 1))

calculateBruteForceCombinations(charset, maxLength) ==
  IF Len(charset) = 0 \/ maxLength <= 0 THEN 0 ELSE PowerSum(Len(charset), maxLength)

\* The generator generate('', 0) of bruteForceMD5, as the path of character
\* indices of the string it yielded last (<<>> before the first).  A node is
\* yielded before its children (depth > 0), children in charset order, and no
\* node deeper than maxLength is visited.
RECURSIVE Backtrack(_, _)
Backtrack(path, n) ==
  IF Len(path) = 0 THEN <<>>
  ELSE IF path[Len(path)] < n THEN [path EXCEPT ![Len(path)] = @ + 1]
  ELSE Backtrack(SubSeq(path, 1, Len(path) - 1), n)

\* A generator that starts every level at the last character of the charset.
GenNextLastChild(path, n, maxLength) ==
  IF n = 0 THEN <<>>
  ELSE IF Len(path) < maxLength THEN Append(path, n)
  ELSE Backtrack(path, n)

GenNext(path, n, maxLength) ==
  IF n = 0 THEN <<>>
  ELSE IF Len(path) < maxLength THEN Append(path, 1)
  ELSE Backtrack(path, n)

\* next.done: the generator has no further string.
GenDone(path, n, maxLength) == GenNext(path, n, maxLength) = <<>>

\* for (const char of charset): the characters the string iterator yields from
\* code unit k on, a surrogate pair being one character of two code units.
RECURSIVE charsOf(_, _)
charsOf(charset, k) ==
  IF k > Len(charset) THEN <<>>
  ELSE IF isHighSurrogate(charset[k]) /\ k < Len(charset) /\ isLowSurrogate(charset[k + 1])
    THEN <<<<charset[k], charset[k + 1]>>>> \o charsOf(charset, k + 2)
  ELSE <<<<charset[k]>>>> \o charsOf(charset, k + 1)

\* The code units of a sequence of characters, one after the other.
RECURSIVE Flatten(_)
Flatten(chars) == IF chars = <<>> THEN <<>> ELSE Head(chars) \o Flatten(Tail(chars))

\* The string a path stands for: current + char along the path.
PathWord(path, charset) ==
  Flatten([k \in 1..Len(path) |-> charsOf(charset, 1)[path[k]]])

VARIABLES
  job,          \* the arguments of the call: mode, targetHash, wordlist, charset, maxLength
  pc,           \* "start", "loop" (inside processBatch), "timer" (setTimeout pending), "settled"
  aborted,      \* signal.aborted
  outcome,      \* "pending", "found", "not_found" (resolve(null)), "aborted" (reject AbortError)
  result,       \* the word the promise resolved with
  checked,      \* the closure's checked counter
  currentIndex, \* crackMD5: index of the next word
  gen,          \* bruteForceMD5: the iterator
  i,            \* the loop variable of the running batch
  batchEnd,     \* crackMD5: the bound of the running batch
  progress,     \* the checked values handed to onProgress, in order
  tested,       \* the candidates hashed so far, in order
  batch         \* bookkeeping of the running batch: token reads, candidates hashed,
                \* calls to onProgress and setTimeout, the token as read at its start

crackVars == <<job, pc, aborted, outcome, result, checked, currentIndex, gen, i, batchEnd,
               progress, tested, batch>>

\* The state of one use of a codec: an encode call and the decode calls on
\* its output.
VARIABLES
  scheme,           \* "envelope", "lsb", "pattern", "md5pattern", "rd", "morse"; "none"
                    \* while the search engine runs
  secret,           \* the message handed to encode
  passphrase,       \* the password handed to encode
  patternKey,       \* the stego key handed to encode (pattern schemes)
  carrier,          \* the carrier image handed to encode (LSB schemes)
  imageData,        \* the buffer of the canvas' ImageData when encode ends
  sentPayload,      \* the encryptedPayload encode made
  intermediate,     \* the binary or hex string encode returned besides the image
  stego,            \* the image encode produced
  encodeError,      \* the Error encode threw, "none" if it returned
  decodePassphrase, \* the password handed to decode
  decodeKey,        \* the stego key handed to decode
  decoded,          \* what decode returned or threw
  phase             \* "ready", "encoded", "decoded" ("decodedFromText" by a secondary
                    \* entry); "idle" while the search engine runs

stegoVars == <<scheme, secret, passphrase, patternKey, carrier, imageData, sentPayload,
               intermediate, stego,
               encodeError, decodePassphrase, decodeKey, decoded, phase>>

\* The state of the cracker panel (components/Sidebar.tsx, MD5CrackerMode) and
\* of its click handler.
VARIABLES
  targetHash,       \* the text of the hash field
  attackType,       \* "dictionary", "bruteforce", "ai", "rainbow"; "none" without a panel
  wordlistFile,     \* the text of the chosen file, NoWordlist while none is chosen
  bfCharsetLower,   \* the a-z checkbox
  bfCustomCharset,  \* the text of the custom characters field
  bfMaxLength,      \* the number of the max length field
  isLoading,        \* the loading flag the panel renders with
  crackerResult,    \* result.status; "null" while result is null
  handler,          \* where handleStartCracking stands: "idle", "reading" (await
                    \* wordlistFile.text()), "importing", "generating" and
                    \* "generatingUnheard" (await getAIPasswordGuesses: at its
                    \* import, at its race with the abort listener added, and at
                    \* that race with the listener added after the abort event),
                    \* "searching" (await of the engine's promise)
  clicked,          \* the targetHash of the render the running handler was made in
  abortControllerRef, \* abortControllerRef.current of the mounted panel: "null", or
                    \* "current" for the controller of the handler that it started
                    \* last, whose signal is aborted
  abortRequested    \* the Abort button has been clicked since the last call of
                    \* handleStartCracking

panelVars == <<targetHash, attackType, wordlistFile, bfCharsetLower, bfCustomCharset,
               bfMaxLength, isLoading, crackerResult, handler, clicked,
               abortControllerRef, abortRequested>>

\* The calls of seededShuffle made on the indices of an image (utils.ts).
VARIABLES
  shuffleLength,    \* the number of pixels of the image: the length of the index array
  shuffleKey,       \* the stego key the seed is derived from
  shuffles          \* the calls made so far: the seed handed to each and what it returned

shuffleVars == <<shuffleLength, shuffleKey, shuffles>>


\* The calls of the text and digest utilities (utils.ts) on one text.
VARIABLES
  utilText,         \* the text the calls are about
  utilFn,           \* the utility called last, "none" before the first call
  utilArg,          \* the argument of that call
  utilRet           \* what it returned

utilVars == <<utilText, utilFn, utilArg, utilRet>>

\* No utility is being called.
NoUtil ==
  /\ utilText = <<>>
  /\ utilFn = "none"
  /\ utilArg = <<>>
  /\ utilRet = <<>>


\* The application around the tools: the sidebar's choice, the loading flag's
\* other users (SteganographyMode and UniversalDecoderMode) and the Universal
\* Decoder's analysis of an image.
VARIABLES
  hubMode,           \* the tool the hub renders: "AutoDecode", "LSB", "MD5Cracker";
                     \* "none" without the application
  stegoHandler,      \* SteganographyMode.handleProcess: "idle" or "processing"
  imageFile,         \* the image chosen in the Universal Decoder, NoImage for null
  decoderPassword,   \* the text of the Universal Decoder's password field
  decoderStegoKey,   \* the text of its stego key field
  analysis,          \* where handleRunAnalysis stands: "idle", "ai" (await
                     \* analyzeImageWithAI), "decoding" (await decodeFn)
  methodIndex,       \* the place in DECODING_METHODS of the method awaited, from 1
  newReport,         \* the report of the running or of the last analysis
  analysisAborted,   \* signal.aborted of the analysis' controller
  decoderControllerRef  \* abortControllerRef.current of the mounted decoder:
                     \* "null" or "current" (the running analysis' controller)

appVars == <<hubMode, stegoHandler, imageFile, decoderPassword,
             decoderStegoKey, analysis, methodIndex, newReport, analysisAborted,
             decoderControllerRef>>

\* Lines 83-89 of UniversalDecoderMode: the report handleRunAnalysis starts
\* from.
EmptyReport ==
  [aiAnalysis |-> "null", decodingLog |-> <<>>, finalResult |-> <<"null">>,
   detectedMethod |-> "null"]

\* The Universal Decoder as it mounts, with no analysis running.
DecoderAtMount ==
  /\ imageFile = [width |-> 0, height |-> 0, data |-> <<>>]
  /\ decoderPassword = <<>>
  /\ decoderStegoKey = <<>>
  /\ analysis = "idle"
  /\ methodIndex = 0
  /\ newReport = EmptyReport
  /\ analysisAborted = FALSE
  /\ decoderControllerRef = "null"

\* No application: a tool's code is called directly.
NoApp ==
  /\ hubMode = "none"
  /\ stegoHandler = "idle"
  /\ DecoderAtMount

vars == <<crackVars, stegoVars, panelVars, shuffleVars, utilVars, appVars>>

\* No image is being shuffled.
NoShuffle ==
  /\ shuffleLength = 0
  /\ shuffleKey = <<>>
  /\ shuffles = <<>>

\* No file chosen: null, as a code no text holds.
NoWordlist == <<-1>>

\* No panel: the engine or a codec is called directly.
NoPanel ==
  /\ targetHash = <<>>
  /\ attackType = "none"
  /\ wordlistFile = NoWordlist
  /\ bfCharsetLower = FALSE
  /\ bfCustomCharset = <<>>
  /\ bfMaxLength = 0
  /\ isLoading = FALSE
  /\ crackerResult = "null"
  /\ handler = "idle"
  /\ clicked = <<>>
  /\ abortControllerRef = "null"
  /\ abortRequested = FALSE

\* No image.
NoImage == [width |-> 0, height |-> 0, data |-> <<>>]

\* The codecs while the search engine runs.
StegoIdle ==
  /\ scheme = "none"
  /\ secret = <<>>
  /\ passphrase = <<>>
  /\ patternKey = <<>>
  /\ carrier = NoImage
  /\ imageData = <<>>
  /\ sentPayload = <<>>
  /\ intermediate = <<>>
  /\ stego = NoImage
  /\ encodeError = "none"
  /\ decodePassphrase = <<>>
  /\ decodeKey = <<>>
  /\ decoded = <<"pending">>
  /\ phase = "idle"

\* Character codes of the strings the jobs of the model use.
Str_foo == <<102, 111, 111>>
Str_hunter2 == <<104, 117, 110, 116, 101, 114, 50>>
Str_bar == <<98, 97, 114>>

\* "foo\nhunter2\nbar"
List1 == Str_foo \o <<10>> \o Str_hunter2 \o <<10>> \o Str_bar
\* "a\r\n\n b \nb": CRLF, an empty line, a padded word
List2 == <<97, 13, 10, 10, 32, 98, 32, 10, 98>>
\* " \nb\na\nb\nab": a blank (but not empty) line and a repeated word
List3 == <<32, 10, 98, 10, 97, 10, 98, 10, 97, 98>>

WordLists == {<<>>, List1, List2, List3}

Charsets == {<<>>, <<98>>, <<97, 98>>, <<55357, 56832>>}

\* Target hashes: digests of words that occur, of the empty string and of a
\* word no job meets.
TargetWords == {Str_hunter2, <<98>>, <<97, 98>>, <<>>, <<122, 122>>}

Jobs ==
  [mode : {"dictionary"}, targetHash : {md5(w) : w \in TargetWords},
   wordlist : WordLists, charset : {<<>>}, maxLength : {0}]
  \cup
  [mode : {"brute"}, targetHash : {md5(w) : w \in TargetWords},
   wordlist : {<<>>}, charset : Charsets, maxLength : 0..MaxLen]

NoBatch == [reads |-> 0, hashed |-> 0, reports |-> 0, timers |-> 0, tokenAtStart |-> FALSE,
            tokenSetInside |-> FALSE]

words == WordsOf(job.wordlist)

\* A batch bound one past the batch size.
BatchBoundOffByOne(index, n) == Min(index + BATCH_SIZE + 1, n)

\* const batchEnd = Math.min(currentIndex + BATCH_SIZE, total)
BatchBound(index, n) == Min(index + BATCH_SIZE, n)

\* total of the running job.
total ==
  IF job.mode = "dictionary" THEN Len(words)
  ELSE calculateBruteForceCombinations(job.charset, job.maxLength)

Init ==
  /\ StegoIdle
  /\ NoPanel
  /\ NoShuffle
  /\ NoUtil
  /\ NoApp
  /\ job \in Jobs
  /\ pc = "start"
  /\ aborted \in {FALSE, TRUE}
  /\ outcome = "pending"
  /\ result = <<>>
  /\ checked = 0
  /\ currentIndex = 0
  /\ gen = <<>>
  /\ i = 0
  /\ batchEnd = 0
  /\ progress = <<>>
  /\ tested = <<>>
  /\ batch = NoBatch

\* A processBatch that starts its loop without looking at the signal.
BatchBeginIgnoresSignal ==
  /\ UNCHANGED <<stegoVars, panelVars, shuffleVars, utilVars, appVars>>
  /\ pc \in {"start", "timer"}
  /\ total <= MaxJob
  /\ batch' = [NoBatch EXCEPT !.tokenAtStart = aborted]
  /\ pc' = "loop"
  /\ i' = IF job.mode = "dictionary" THEN currentIndex ELSE 0
  /\ batchEnd' = IF job.mode = "dictionary" THEN BatchBound(currentIndex, total) ELSE BATCH_SIZE
  /\ UNCHANGED <<job, aborted, outcome, result, checked, currentIndex, gen, progress, tested>>

\* if (signal.aborted) return reject(new DOMException('Aborted by user.', 'AbortError'))
\* at the top of processBatch, then the set-up of the loop.  The first batch is
\* called by the promise executor, every later one by the timer.
BatchBegin ==
  /\ UNCHANGED <<stegoVars, panelVars, shuffleVars, utilVars, appVars>>
  /\ pc \in {"start", "timer"}
  /\ total <= MaxJob
  /\ batch' = [NoBatch EXCEPT !.reads = 1, !.tokenAtStart = aborted]
  /\ IF aborted
       THEN /\ outcome' = "aborted"
            /\ pc' = "settled"
            /\ UNCHANGED <<i, batchEnd>>
       ELSE /\ pc' = "loop"
            /\ i' = IF job.mode = "dictionary" THEN currentIndex ELSE 0
            /\ batchEnd' = IF job.mode = "dictionary"
                             THEN BatchBound(currentIndex, total)
                             ELSE BATCH_SIZE
            /\ UNCHANGED outcome
  /\ UNCHANGED <<job, aborted, result, checked, currentIndex, gen, progress, tested>>

\* crackMD5: one iteration of the for loop (lines 32-39).
DictStep ==
  /\ UNCHANGED <<stegoVars, panelVars, shuffleVars, utilVars, appVars>>
  /\ pc = "loop" /\ job.mode = "dictionary" /\ i < batchEnd
  /\ LET word == Trim(words[i + 1])
         hit == md5(word) = job.targetHash
     IN  /\ tested' = Append(tested, word)
         /\ batch' = [batch EXCEPT !.hashed = @ + 1, !.reports = IF hit THEN @ + 1 ELSE @]
         /\ IF hit
              THEN /\ progress' = Append(progress, i + 1)
                   /\ outcome' = "found"
                   /\ result' = word
                   /\ pc' = "settled"
                   /\ UNCHANGED i
              ELSE /\ i' = i + 1
                   /\ UNCHANGED <<progress, outcome, result, pc>>
  /\ UNCHANGED <<job, aborted, checked, currentIndex, gen, batchEnd>>

\* crackMD5: after the loop (lines 41-50).
DictBatchEnd ==
  /\ UNCHANGED <<stegoVars, panelVars, shuffleVars, utilVars, appVars>>
  /\ pc = "loop" /\ job.mode = "dictionary" /\ i >= batchEnd
  /\ checked' = batchEnd
  /\ currentIndex' = batchEnd
  /\ progress' = Append(progress, batchEnd)
  /\ IF batchEnd < total
       THEN /\ pc' = "timer"
            /\ batch' = [batch EXCEPT !.reports = @ + 1, !.timers = @ + 1]
            /\ UNCHANGED outcome
       ELSE /\ pc' = "settled"
            /\ outcome' = "not_found"
            /\ batch' = [batch EXCEPT !.reports = @ + 1]
  /\ UNCHANGED <<job, aborted, result, gen, i, batchEnd, tested>>

\* bruteForceMD5: one iteration of the for loop (lines 93-109).
BruteStep ==
  /\ UNCHANGED <<stegoVars, panelVars, shuffleVars, utilVars, appVars>>
  /\ pc = "loop" /\ job.mode = "brute" /\ i < batchEnd
  /\ LET n == Len(charsOf(job.charset, 1))
         nxt == GenNext(gen, n, job.maxLength)
         word == PathWord(nxt, job.charset)
     IN  IF GenDone(gen, n, job.maxLength)
           THEN /\ progress' = Append(progress, total)
                /\ outcome' = "not_found"
                /\ pc' = "settled"
                /\ batch' = [batch EXCEPT !.reports = @ + 1]
                /\ UNCHANGED <<gen, checked, tested, result, i>>
           ELSE /\ gen' = nxt
                /\ checked' = checked + 1
                /\ tested' = Append(tested, word)
                /\ IF md5(word) = job.targetHash
                     THEN /\ progress' = Append(progress, checked + 1)
                          /\ outcome' = "found"
                          /\ result' = word
                          /\ pc' = "settled"
                          /\ batch' = [batch EXCEPT !.hashed = @ + 1, !.reports = @ + 1]
                          /\ UNCHANGED i
                     ELSE /\ i' = i + 1
                          /\ batch' = [batch EXCEPT !.hashed = @ + 1]
                          /\ UNCHANGED <<progress, outcome, result, pc>>
  /\ UNCHANGED <<job, aborted, currentIndex, batchEnd>>

\* A batch end that reports and schedules no timer.
BruteBatchEndNoTimer ==
  /\ UNCHANGED <<stegoVars, panelVars, shuffleVars, utilVars, appVars>>
  /\ pc = "loop" /\ job.mode = "brute" /\ i >= batchEnd
  /\ progress' = Append(progress, checked)
  /\ pc' = "stalled"
  /\ batch' = [batch EXCEPT !.reports = @ + 1]
  /\ UNCHANGED <<job, aborted, outcome, result, checked, currentIndex, gen, i, batchEnd, tested>>

\* bruteForceMD5: after the loop (lines 111-112).
BruteBatchEnd ==
  /\ UNCHANGED <<stegoVars, panelVars, shuffleVars, utilVars, appVars>>
  /\ pc = "loop" /\ job.mode = "brute" /\ i >= batchEnd
  /\ progress' = Append(progress, checked)
  /\ pc' = "timer"
  /\ batch' = [batch EXCEPT !.reports = @ + 1, !.timers = @ + 1]
  /\ UNCHANGED <<job, aborted, outcome, result, checked, currentIndex, gen, i, batchEnd, tested>>

\* The caller aborts the signal.  An abort is an event-loop task of its own: it
\* runs before the call, while a timer is pending or after the job has settled,
\* never inside a batch.
Abort ==
  /\ UNCHANGED <<stegoVars, panelVars, shuffleVars, utilVars, appVars>>
  /\ pc \in {"start", "timer", "settled"}
  /\ ~aborted
  /\ aborted' = TRUE
  /\ UNCHANGED <<job, pc, outcome, result, checked, currentIndex, gen, i, batchEnd,
                 progress, tested, batch>>

\* An abort that arrives while a batch is running.  The event loop never
\* delivers one there; the specification SpecAnyAbort admits it to show what a
\* running batch does with the token.
AbortInsideBatch ==
  /\ UNCHANGED <<stegoVars, panelVars, shuffleVars, utilVars, appVars>>
  /\ pc = "loop"
  /\ ~aborted
  /\ aborted' = TRUE
  /\ batch' = [batch EXCEPT !.tokenSetInside = TRUE]
  /\ UNCHANGED <<job, pc, outcome, result, checked, currentIndex, gen, i, batchEnd,
                 progress, tested>>

Next ==
  \/ BatchBegin
  \/ DictStep
  \/ DictBatchEnd
  \/ BruteStep
  \/ BruteBatchEnd
  \/ Abort

Spec == Init /\ [][Next]_vars

NextAnyAbort ==
  \/ Next
  \/ AbortInsideBatch

SpecAnyAbort == Init /\ [][NextAnyAbort]_vars

\* A job whose signal is never aborted.
InitNeverCancelled ==
  /\ Init
  /\ aborted = FALSE

NextNeverCancelled ==
  \/ BatchBegin
  \/ DictStep
  \/ DictBatchEnd
  \/ BruteStep
  \/ BruteBatchEnd

\* The for loop of a batch goes on to its next iteration: weak fairness of the
\* iteration, with the condition under which one is possible written out.
LoopRuns ==
  \/ []<>(~(pc = "loop" /\ i < batchEnd))
  \/ []<><<DictStep \/ BruteStep>>_vars

\* The promise executor calls the first batch, the event loop fires the timer
\* a batch end sets, and a batch runs to its end.
SpecNeverCancelled ==
  /\ InitNeverCancelled
  /\ [][NextNeverCancelled]_vars
  /\ WF_vars(BatchBegin)
  /\ WF_vars(DictBatchEnd)
  /\ WF_vars(BruteBatchEnd)
  /\ LoopRuns

(***************************************************************************)
(* Properties of the search engine.                                        *)
(***************************************************************************)

Last(seq) == seq[Len(seq)]

\* u comes before v in dictionary order over the positions of the charset: u is
\* a proper prefix of v, or u has the earlier character where they first differ.
PosIn(charset, c) == CHOOSE k \in 1..Len(charset) : charset[k] = c

IsPrefix(u, v) == Len(u) <= Len(v) /\ \A k \in 1..Len(u) : u[k] = v[k]

PreOrderBefore(u, v, charset) ==
  \/ Len(u) < Len(v) /\ IsPrefix(u, v)
  \/ \E k \in 1..Min(Len(u), Len(v)) :
       /\ \A j \in 1..(k - 1) : u[j] = v[j]
       /\ PosIn(charset, u[k]) < PosIn(charset, v[k])

\* Shorter strings first, strings of one length in charset order.
LengthFirstBefore(u, v, charset) ==
  \/ Len(u) < Len(v)
  \/ Len(u) = Len(v) /\ PreOrderBefore(u, v, charset)

\* Every non-empty string of at most maxLength characters of charset.
Candidates(charset, maxLength) ==
  LET chars == charsOf(charset, 1)
  IN  UNION {{Flatten(f) : f \in [1..k -> {chars[j] : j \in 1..Len(chars)}]} :
               k \in 1..maxLength}

InTested(w) == \E k \in 1..Len(tested) : tested[k] = w

\* The job of the scenario: charset "ab", maxLength 2, target MD5("b").
ScenarioAB ==
  job.mode = "brute" /\ job.charset = <<97, 98>> /\ job.maxLength = 2
  /\ job.targetHash = md5(<<98>>)

\* The match a finished job reports is the last candidate tested, the only one
\* tested whose digest is the target, and checked counts the candidates tested.
FirstMatchReported ==
  outcome = "found"
  => /\ result = Last(tested)
     /\ md5(result) = job.targetHash
     /\ \A k \in 1..(Len(tested) - 1) : md5(tested[k]) # job.targetHash
     /\ Last(progress) = Len(tested)

\* C7, as stated: brute force tests the candidates shortest first (all strings
\* of length 1 in charset order, then all of length 2, ...) and reports the
\* first match in that order; with charset "ab", maxLength 2 and target
\* MD5("b") the match "b" is the second candidate and is reported with
\* checked = 2.
C7_LengthFirstOrder ==
  job.mode = "brute"
  => /\ \A a, b \in 1..Len(tested) :
          a < b => LengthFirstBefore(tested[a], tested[b], job.charset)
     /\ (ScenarioAB /\ outcome = "found"
          => result = <<98>> /\ Len(tested) = 2 /\ Last(progress) = 2)

\* C7, amended: brute force tests the candidates in depth-first pre-order (a
\* string before its extensions, extensions in charset order, so "a", "aa",
\* "ab", "b", "ba", "bb"), without skipping any, and reports the first match in
\* that order; with charset "ab", maxLength 2 and target MD5("b") the match "b"
\* is the fourth candidate and is reported with checked = 4.
C7_PreOrder ==
  job.mode = "brute"
  => /\ \A a, b \in 1..Len(tested) :
          a < b => PreOrderBefore(tested[a], tested[b], job.charset)
     /\ \A w \in Candidates(job.charset, job.maxLength) :
          (tested # <<>> /\ PreOrderBefore(w, Last(tested), job.charset)) => InTested(w)
     /\ \A k \in 1..Len(tested) : tested[k] \in Candidates(job.charset, job.maxLength)
     /\ FirstMatchReported
     /\ (ScenarioAB /\ outcome = "found"
          => result = <<98>> /\ Len(tested) = 4 /\ Last(progress) = 4)

\* The scenario's job has found "b" after "a", "aa" and "ab".
C7_Witness ==
  ScenarioAB /\ outcome = "found"
  /\ tested = <<<<97>>, <<97, 97>>, <<97, 98>>, <<98>>>>

\* C8: a dictionary job that ends Found returns the first word, in the order
\* of the non-empty lines of the wordlist (each trimmed), whose MD5 is the
\* target, and the progress reported at the match has checked equal to that
\* word's 1-based position; a job that ends with null met no matching word and
\* reported checked = total last.  Wordlist foo, hunter2, bar with target
\* MD5("hunter2") gives "hunter2" with checked = 2.
C8_DictionaryFirstMatch ==
  job.mode = "dictionary"
  => /\ outcome = "found"
          => \E k \in 1..Len(words) :
               /\ result = Trim(words[k])
               /\ md5(result) = job.targetHash
               /\ \A j \in 1..(k - 1) : md5(Trim(words[j])) # job.targetHash
               /\ Last(progress) = k
     /\ outcome = "not_found"
          => /\ \A k \in 1..Len(words) : md5(Trim(words[k])) # job.targetHash
             /\ progress # <<>>
             /\ Last(progress) = total
     /\ (job.wordlist = List1 /\ job.targetHash = md5(Str_hunter2) /\ outcome = "found")
          => (result = Str_hunter2 /\ Last(progress) = 2)
     \* "a\r\n\n b \nb": the empty line is no word, " b " is the second word
     /\ (job.wordlist = List2 /\ job.targetHash = md5(<<98>>) /\ outcome = "found")
          => (result = <<98>> /\ Last(progress) = 2)
     /\ job.wordlist = List2 => total = 3
     \* " \nb\na\nb\nab": the line " " is a word, and trims to the empty string
     /\ (job.wordlist = List3 /\ job.targetHash = md5(<<>>) /\ outcome = "found")
          => (result = <<>> /\ Last(progress) = 1)

\* The scenario: foo, hunter2, bar against MD5("hunter2") has ended Found.
C8_Witness ==
  /\ job.mode = "dictionary" /\ job.wordlist = List1 /\ job.targetHash = md5(Str_hunter2)
  /\ outcome = "found" /\ result = Str_hunter2 /\ progress = <<2>>

ProgressMonotone == \A a, b \in 1..Len(progress) : a < b => progress[a] <= progress[b]

\* C9: once the cancel token is set while the job still has a batch to run,
\* the job's next step ends it Cancelled (so it ends neither Found nor
\* Exhausted), an outcome once reached never changes, and the checked values
\* passed to onProgress never decrease.
C9_Cancellation ==
  /\ []ProgressMonotone
  /\ [][(aborted /\ pc \in {"start", "timer"}) => (pc' = "settled" /\ outcome' = "aborted")]_vars
  /\ [][outcome # "pending" => outcome' = outcome]_vars

\* A job cancelled in mid-run: it had reported progress and still had
\* candidates left.
C9_Witness ==
  outcome = "aborted" /\ progress # <<>> /\ Len(tested) < total

\* The candidates a job can hash in all.
NumCandidates ==
  IF job.mode = "dictionary" THEN Len(words)
  ELSE Cardinality(Candidates(job.charset, job.maxLength))

\* C10: the token is read once per batch, before the batch's first candidate;
\* a batch that has begun hashes BATCH_SIZE candidates and schedules exactly
\* one timer, or hashes all that are left, or stops at a match, whatever
\* happens to the token meanwhile; a batch that begins with the token set
\* hashes nothing, reports nothing, schedules nothing and ends the job
\* Cancelled, and no job is Cancelled otherwise.
C10_BatchBoundary ==
  /\ batch.reads <= 1
  /\ pc # "start" => batch.reads = 1
  /\ batch.hashed <= BATCH_SIZE
  /\ batch.tokenAtStart
       => (pc = "settled" /\ outcome = "aborted" /\ batch.hashed = 0
           /\ batch.reports = 0 /\ batch.timers = 0)
  /\ outcome = "aborted" => batch.tokenAtStart
  /\ pc = "timer"
       => (batch.hashed = BATCH_SIZE /\ batch.timers = 1 /\ batch.reports = 1
           /\ outcome = "pending")
  /\ pc # "timer" => batch.timers = 0
  /\ outcome = "not_found" => (Len(tested) = NumCandidates /\ batch.reports = 1)
  /\ outcome = "found" => (md5(Last(tested)) = job.targetHash /\ batch.reports = 1)

\* A batch ran to its end although the token was set while it was running.
C10_Witness ==
  batch.tokenSetInside /\ pc = "timer" /\ batch.hashed = BATCH_SIZE

(***************************************************************************)
(* Text, bits and base64 (utils.ts).  A JavaScript string is its sequence  *)
(* of UTF-16 code units; a buffer is its sequence of bytes; a binary       *)
(* string is its sequence of bits.                                         *)
(***************************************************************************)

\* The code units of the scalar value cp.
utf16Units(cp) ==
  IF cp < 65536 THEN <<cp>>
  ELSE <<55296 + ((cp - 65536) \div 1024), 56320 + ((cp - 65536) % 1024)>>

\* The UTF-8 decoder of TextDecoder: its state between two bytes (the code
\* point being read, the continuation bytes still needed, the range the next
\* byte must be in), whether every sequence so far was well formed, and the
\* code units written.
utf8DecoderStart ==
  [cp |-> 0, needed |-> 0, lower |-> 128, upper |-> 191, wellFormed |-> TRUE, out |-> <<>>]

\* A byte read while no sequence is open.
utf8Lead(st, b) ==
  IF b < 128 THEN [st EXCEPT !.out = Append(@, b)]
  ELSE IF b >= 194 /\ b <= 223 THEN [st EXCEPT !.needed = 1, !.cp = b - 192]
  ELSE IF b >= 224 /\ b <= 239
    THEN [st EXCEPT !.needed = 2, !.cp = b - 224,
                    !.lower = IF b = 224 THEN 160 ELSE 128,
                    !.upper = IF b = 237 THEN 159 ELSE 191]
  ELSE IF b >= 240 /\ b <= 244
    THEN [st EXCEPT !.needed = 3, !.cp = b - 240,
                    !.lower = IF b = 240 THEN 144 ELSE 128,
                    !.upper = IF b = 244 THEN 143 ELSE 191]
  ELSE [st EXCEPT !.wellFormed = FALSE, !.out = Append(@, 65533)]

\* One byte: a byte that cannot continue the open sequence ends it as U+FFFD
\* and is read again as a first byte.
utf8Byte(st, b) ==
  IF st.needed = 0 THEN utf8Lead(st, b)
  ELSE IF b < st.lower \/ b > st.upper
    THEN utf8Lead([utf8DecoderStart EXCEPT !.wellFormed = FALSE,
                                           !.out = Append(st.out, 65533)], b)
  ELSE IF st.needed = 1
    THEN [utf8DecoderStart EXCEPT !.wellFormed = st.wellFormed,
                                  !.out = st.out \o utf16Units(st.cp * 64 + (b - 128))]
  ELSE [st EXCEPT !.needed = @ - 1, !.cp = @ * 64 + (b - 128), !.lower = 128, !.upper = 191]

\* The decoder over bytes from to upTo.
RECURSIVE utf8DecodeRange(_, _, _, _)
utf8DecodeRange(st, bytes, from, upTo) ==
  IF from > upTo THEN st
  ELSE IF from = upTo THEN utf8Byte(st, bytes[from])
  ELSE CHOOSE r \in {utf8DecodeRange(m, bytes, ((from + upTo) \div 2) + 1, upTo) :
                       m \in {utf8DecodeRange(st, bytes, from, (from + upTo) \div 2)}} : TRUE

\* TextDecoder.decode: <<well formed, code units>>; a sequence the end of the
\* bytes cuts short is U+FFFD too.
utf8Decode(bytes) ==
  LET st == utf8DecodeRange(utf8DecoderStart, bytes, 1, Len(bytes))
  IN  IF st.needed = 0 THEN <<st.wellFormed, st.out>>
      ELSE <<FALSE, Append(st.out, 65533)>>

\* The decoder drops a byte order mark at the start (ignoreBOM is false).
stripBOM(units) ==
  IF Len(units) > 0 /\ units[1] = 65279 THEN SubSeq(units, 2, Len(units)) ELSE units

\* new TextDecoder().decode(buffer)
arrayBufferToString(buffer) == stripBOM(utf8Decode(buffer)[2])

\* textToBinary: every byte of the UTF-8 encoding as eight bits, high bit first.
textToBinary(text) ==
  LET bytes == stringToArrayBuffer(text)
  IN  [k \in 1..(8 * Len(bytes)) |-> (bytes[((k - 1) \div 8) + 1] \div Pow2(7 - ((k - 1) % 8))) % 2]

\* parseInt(binary.substring(k, k + 8), 2) for the k-th byte of binary.
byteOfBits(binary, k) ==
  LET o == 8 * (k - 1)
  IN  128 * binary[o + 1] + 64 * binary[o + 2] + 32 * binary[o + 3] + 16 * binary[o + 4]
      + 8 * binary[o + 5] + 4 * binary[o + 6] + 2 * binary[o + 7] + binary[o + 8]

\* binaryToText: whole bytes only; "" when the bytes are no UTF-8 (the decoder
\* is fatal and the catch returns '').
binaryToText(binary) ==
  LET bytes == [k \in 1..(Len(binary) \div 8) |-> byteOfBits(binary, k)]
      dec == utf8Decode(bytes)
  IN  IF Len(bytes) = 0 THEN <<>>
      ELSE IF dec[1] THEN stripBOM(dec[2]) ELSE <<>>

\* The alphabet of btoa and atob.
Base64Alphabet ==
  <<65, 66, 67, 68, 69, 70, 71, 72, 73, 74, 75, 76, 77, 78, 79, 80, 81, 82, 83, 84, 85, 86, 87,
    88, 89, 90, 97, 98, 99, 100, 101, 102, 103, 104, 105, 106, 107, 108, 109, 110, 111, 112,
    113, 114, 115, 116, 117, 118, 119, 120, 121, 122, 48, 49, 50, 51, 52, 53, 54, 55, 56, 57,
    43, 47>>

\* window.btoa of the bytes of buffer: four characters for every three bytes,
\* '=' where the last group has no byte.
arrayBufferToBase64(buffer) ==
  LET n == Len(buffer)
      byte(k) == IF k <= n THEN buffer[k] ELSE 0
      sextet(g, q) ==
        LET b1 == byte(3 * g + 1)
            b2 == byte(3 * g + 2)
            b3 == byte(3 * g + 3)
        IN  IF q = 0 THEN b1 \div 4
            ELSE IF q = 1 THEN (b1 % 4) * 16 + (b2 \div 16)
            ELSE IF q = 2 THEN (b2 % 16) * 4 + (b3 \div 64)
            ELSE b3 % 64
  IN  [j \in 1..(4 * ((n + 2) \div 3)) |->
         LET g == (j - 1) \div 4
             q == (j - 1) % 4
         IN  IF 3 * g + q > n THEN 61 ELSE Base64Alphabet[sextet(g, q) + 1]]

isAsciiWhitespace(c) == c \in {9, 10, 12, 13, 32}
base64Index(c) == CHOOSE k \in 0..63 : Base64Alphabet[k + 1] = c

\* window.atob then the copy into a buffer: <<"ok", bytes>>, or
\* <<"InvalidCharacterError">> when atob throws.  atob drops white space and
\* up to two '=' that end a string of a multiple of four characters, rejects a
\* length of 1 modulo 4 and any other character, and drops the bits that fill
\* no byte.
base64ToArrayBuffer(base64) ==
  LET s1 == SelectSeq(base64, LAMBDA c : ~isAsciiWhitespace(c))
      n1 == Len(s1)
      pad == IF n1 % 4 = 0 /\ n1 > 0 /\ s1[n1] = 61
               THEN (IF s1[n1 - 1] = 61 THEN 2 ELSE 1)
               ELSE 0
      s2 == SubSeq(s1, 1, n1 - pad)
      n2 == Len(s2)
      six(k) == base64Index(s2[k])
      byte(k) ==
        LET g == 4 * ((k - 1) \div 3)
            q == (k - 1) % 3
        IN  IF q = 0 THEN six(g + 1) * 4 + (six(g + 2) \div 16)
            ELSE IF q = 1 THEN (six(g + 2) % 16) * 16 + (six(g + 3) \div 4)
            ELSE (six(g + 3) % 4) * 64 + six(g + 4)
  IN  IF n2 % 4 = 1 \/ \E k \in 1..n2 : \A a \in 1..64 : Base64Alphabet[a] # s2[k]
        THEN <<"InvalidCharacterError">>
        ELSE <<"ok", [k \in 1..((n2 * 6) \div 8) |-> byte(k)]>>

(***************************************************************************)
(* The cryptographic envelope (cryptoService.ts).                          *)
(***************************************************************************)

CRYPTO_SALT_NUM_BYTES == 16
CRYPTO_IV_NUM_BYTES == 12
\* ':'
CRYPTO_PAYLOAD_DELIMITER == 58

\* "correct-horse", "wrong" and "Correct-Horse"
Pwd_correct_horse == <<99, 111, 114, 114, 101, 99, 116, 45, 104, 111, 114, 115, 101>>
Pwd_wrong == <<119, 114, 111, 110, 103>>
Pwd_Correct_Horse == <<67, 111, 114, 114, 101, 99, 116, 45, 72, 111, 114, 115, 101>>

\* "hi", "a", "e" with an acute accent (U+00E9) and "hi" after a zero width
\* no-break space (U+FEFF).
Msg_hi == <<104, 105>>
Msg_a == <<97>>
Msg_e_acute == <<233>>
Msg_bom_hi == <<65279, 104, 105>>

\* Values crypto.getRandomValues can return for the salt and the IV.
Salt1 == <<0, 7, 14, 21, 28, 35, 42, 49, 56, 63, 70, 77, 84, 91, 98, 105>>
Iv1 == <<0, 3, 6, 9, 12, 15, 18, 21, 24, 27, 30, 33>>
Salt2 == <<51, 61, 66, 77, 83, 95, 102, 104, 112, 115, 124, 128, 138, 143, 154, 160>>
Iv2 == <<87, 93, 94, 100, 101, 102, 108, 109, 115, 116, 117, 123>>
Salt3 == <<102, 115, 118, 133, 138, 144, 151, 159, 168, 167, 178, 179, 192, 195, 210,
           215>>
Iv3 == <<174, 178, 182, 186, 190, 189, 193, 197, 201, 205, 204, 208>>

Draws == {<<Salt1, Iv1>>, <<Salt2, Iv2>>, <<Salt3, Iv3>>}

\* AES-256-GCM under the PBKDF2 key (SHA-256, 100000 iterations) of a password
\* and a salt: <<password bytes, salt, iv, plaintext, ciphertext and tag>> for
\* the inputs of the model, as Web Crypto computes them.
AesGcmKnown ==
  {
    <<Pwd_correct_horse, Salt1, Iv1, <<104, 105>>,
      <<7, 206, 23, 138, 218, 23, 22, 85, 5, 154, 244, 227, 238, 42, 110, 11, 137, 103>>>>,
    <<Pwd_correct_horse, Salt2, Iv2, <<104, 105>>,
      <<233, 187, 105, 11, 165, 181, 63, 28, 31, 139, 48, 120, 219, 39, 151, 179, 27,
      62>>>>,
    <<Pwd_correct_horse, Salt3, Iv3, <<104, 105>>,
      <<248, 19, 255, 190, 50, 56, 228, 118, 172, 165, 100, 36, 117, 54, 140, 117, 205,
      144>>>>,
    <<Pwd_correct_horse, Salt1, Iv1, <<97>>,
      <<14, 136, 234, 161, 196, 28, 84, 7, 207, 249, 234, 93, 205, 195, 17, 191, 90>>>>,
    <<Pwd_correct_horse, Salt2, Iv2, <<97>>,
      <<224, 184, 148, 89, 10, 29, 36, 234, 45, 59, 255, 115, 241, 30, 8, 212, 120>>>>,
    <<Pwd_correct_horse, Salt3, Iv3, <<97>>,
      <<241, 118, 180, 198, 241, 207, 185, 40, 28, 162, 81, 32, 6, 36, 64, 246, 180>>>>,
    <<Pwd_correct_horse, Salt1, Iv1, <<195, 169>>,
      <<172, 14, 177, 84, 247, 112, 102, 52, 252, 172, 246, 82, 217, 132, 202, 237, 138,
      78>>>>,
    <<Pwd_correct_horse, Salt2, Iv2, <<195, 169>>,
      <<66, 123, 68, 36, 103, 36, 20, 100, 183, 11, 35, 63, 47, 138, 123, 37, 73, 148>>>>,
    <<Pwd_correct_horse, Salt3, Iv3, <<195, 169>>,
      <<83, 211, 241, 154, 197, 109, 158, 159, 99, 211, 115, 176, 115, 113, 62, 217, 48,
      184>>>>,
    <<Pwd_correct_horse, Salt1, Iv1, <<239, 187, 191, 104, 105>>,
      <<128, 28, 232, 34, 84, 15, 41, 213, 23, 124, 52, 110, 201, 219, 199, 158, 23, 250,
      88, 143, 198>>>>,
    <<Pwd_correct_horse, Salt2, Iv2, <<239, 187, 191, 104, 105>>,
      <<110, 105, 223, 196, 193, 22, 170, 182, 209, 101, 239, 3, 26, 162, 127, 42, 254,
      125, 194, 177, 126>>>>,
    <<Pwd_correct_horse, Salt3, Iv3, <<239, 187, 191, 104, 105>>,
      <<127, 193, 129, 190, 58, 14, 52, 1, 193, 195, 148, 144, 170, 42, 70, 140, 243, 74,
      39, 229, 223>>>>,
    <<Pwd_wrong, Salt1, Iv1, <<104, 105>>,
      <<229, 161, 59, 245, 84, 96, 222, 31, 122, 245, 21, 204, 206, 225, 250, 228, 205,
      90>>>>,
    <<Pwd_wrong, Salt2, Iv2, <<104, 105>>,
      <<156, 144, 84, 170, 163, 25, 6, 31, 58, 32, 172, 26, 8, 34, 160, 251, 170, 84>>>>,
    <<Pwd_wrong, Salt3, Iv3, <<104, 105>>,
      <<205, 45, 204, 242, 47, 126, 187, 227, 61, 181, 196, 78, 119, 68, 69, 81, 103,
      112>>>>,
    <<Pwd_wrong, Salt1, Iv1, <<97>>,
      <<236, 253, 243, 204, 47, 224, 36, 143, 174, 123, 205, 46, 159, 121, 219, 74, 30>>>>,
    <<Pwd_wrong, Salt2, Iv2, <<97>>,
      <<149, 95, 110, 221, 48, 194, 38, 26, 30, 75, 159, 208, 227, 229, 214, 211, 234>>>>,
    <<Pwd_wrong, Salt3, Iv3, <<97>>,
      <<196, 9, 147, 56, 132, 111, 228, 192, 211, 88, 203, 34, 168, 61, 158, 168, 185>>>>,
    <<Pwd_wrong, Salt1, Iv1, <<195, 169>>,
      <<78, 97, 254, 22, 152, 199, 76, 151, 243, 129, 198, 17, 60, 30, 57, 167, 124,
      250>>>>,
    <<Pwd_wrong, Salt2, Iv2, <<195, 169>>,
      <<55, 80, 170, 46, 61, 85, 252, 123, 133, 58, 241, 123, 233, 141, 245, 146, 154,
      228>>>>,
    <<Pwd_wrong, Salt3, Iv3, <<195, 169>>,
      <<102, 237, 43, 31, 217, 30, 174, 116, 108, 111, 106, 74, 33, 134, 5, 145, 158,
      220>>>>,
    <<Pwd_wrong, Salt1, Iv1, <<239, 187, 191, 104, 105>>,
      <<98, 115, 60, 130, 168, 240, 199, 83, 253, 95, 182, 121, 37, 99, 184, 227, 70,
      174, 182, 33, 193>>>>,
    <<Pwd_wrong, Salt2, Iv2, <<239, 187, 191, 104, 105>>,
      <<27, 66, 72, 84, 124, 145, 212, 28, 193, 11, 114, 161, 240, 17, 37, 251, 109, 146,
      113, 55, 43>>>>,
    <<Pwd_wrong, Salt3, Iv3, <<239, 187, 191, 104, 105>>,
      <<74, 255, 228, 20, 42, 18, 214, 56, 209, 254, 56, 114, 75, 210, 53, 194, 122, 98,
      62, 67, 93>>>>
  }

\* crypto.subtle.encrypt under deriveKey(password, salt).
subtleEncrypt(passwordBuffer, salt, iv, plaintext) ==
  (CHOOSE e \in AesGcmKnown :
     e[1] = passwordBuffer /\ e[2] = salt /\ e[3] = iv /\ e[4] = plaintext)[5]

\* crypto.subtle.decrypt under deriveKey(password, salt): the plaintext of a
\* ciphertext made under the same key and IV, and an OperationError for any
\* other (the tag does not verify).
subtleDecrypt(passwordBuffer, salt, iv, ciphertext) ==
  IF \E e \in AesGcmKnown :
       e[1] = passwordBuffer /\ e[2] = salt /\ e[3] = iv /\ e[5] = ciphertext
    THEN <<"ok", (CHOOSE e \in AesGcmKnown :
                    e[1] = passwordBuffer /\ e[2] = salt /\ e[3] = iv /\ e[5] = ciphertext)[4]>>
    ELSE <<"OperationError">>

\* A payload without the IV: base64(salt):base64(ciphertext).
encryptMessageWithoutIv(message, password, draw) ==
  LET ciphertextBuffer ==
        subtleEncrypt(stringToArrayBuffer(password), draw[1], draw[2],
                      stringToArrayBuffer(message))
  IN  arrayBufferToBase64(draw[1]) \o <<CRYPTO_PAYLOAD_DELIMITER>>
        \o arrayBufferToBase64(ciphertextBuffer)

\* encryptMessage with the salt and IV of draw:
\* base64(salt):base64(iv):base64(ciphertext).
encryptMessage(message, password, draw) ==
  LET salt == draw[1]
      iv == draw[2]
      ciphertextBuffer ==
        subtleEncrypt(stringToArrayBuffer(password), salt, iv, stringToArrayBuffer(message))
  IN  arrayBufferToBase64(salt) \o <<CRYPTO_PAYLOAD_DELIMITER>> \o arrayBufferToBase64(iv)
        \o <<CRYPTO_PAYLOAD_DELIMITER>> \o arrayBufferToBase64(ciphertextBuffer)

\* The places of sep in str[from..upTo], in order.
RECURSIVE placesOf(_, _, _, _)
placesOf(str, sep, from, upTo) ==
  IF from > upTo THEN <<>>
  ELSE IF from = upTo THEN (IF str[from] = sep THEN <<from>> ELSE <<>>)
  ELSE placesOf(str, sep, from, (from + upTo) \div 2)
         \o placesOf(str, sep, ((from + upTo) \div 2) + 1, upTo)

\* String.prototype.split on a one-character separator: the parts between
\* the places of the separator.
split(str, sep) ==
  LET at == placesOf(str, sep, 1, Len(str))
      place(j) == IF j = 0 THEN 0
                  ELSE IF j > Len(at) THEN Len(str) + 1
                  ELSE at[j]
  IN  [j \in 1..(Len(at) + 1) |->
         [k \in 1..(place(j) - place(j - 1) - 1) |-> str[place(j - 1) + k]]]

\* Parts that leave out what follows a third delimiter.
decryptMessageFirstThreePartsOf(encryptedPayload) ==
  LET parts == split(encryptedPayload, CRYPTO_PAYLOAD_DELIMITER)
  IN  IF Len(parts) > 3 THEN SubSeq(parts, 1, 3) ELSE parts

\* const parts = encryptedPayload.split(CRYPTO_PAYLOAD_DELIMITER)
decryptMessagePartsOf(encryptedPayload) ==
  split(encryptedPayload, CRYPTO_PAYLOAD_DELIMITER)

\* decryptMessage: <<"ok", message>>, or <<"error", which>> for the Error it
\* throws: "AuthenticationFailure" is 'Decryption failed. This usually means
\* an incorrect password or corrupted data.', "InvalidFormat" is 'Invalid
\* encrypted payload format. Expected salt:iv:ciphertext.' and
\* "InvalidCharacter" carries the message of atob's exception.
decryptMessage(encryptedPayload, password) ==
  LET parts == decryptMessagePartsOf(encryptedPayload)
  IN  IF Len(parts) # 3 THEN <<"error", "InvalidFormat">>
      ELSE LET salt == base64ToArrayBuffer(parts[1])
               iv == base64ToArrayBuffer(parts[2])
               ciphertext == base64ToArrayBuffer(parts[3])
           IN  IF salt[1] # "ok" \/ iv[1] # "ok" \/ ciphertext[1] # "ok"
                 THEN <<"error", "InvalidCharacter">>
               ELSE LET decrypted == subtleDecrypt(stringToArrayBuffer(password), salt[2],
                                                   iv[2], ciphertext[2])
                    IN  IF decrypted[1] = "ok"
                          THEN <<"ok", arrayBufferToString(decrypted[2])>>
                          ELSE <<"error", "AuthenticationFailure">>

(***************************************************************************)
(* Key-derived pixel order (utils.ts, "Utilities for Pattern LSB").        *)
(* A seed is kept as the signed 32-bit word congruent to it modulo 2^32:   *)
(* mulberry32 reads its state only through 32-bit operators.               *)
(***************************************************************************)

\* (a * b) % 65536 for 16-bit a and b, without a product above 2^31.
Mul16(a, b) == (((((a \div 256) * b) % 256) * 256) + ((a % 256) * b)) % 65536

\* (a * b) \div 65536 for 16-bit a and b.
MulHi16(a, b) ==
  LET u == (a \div 256) * b
      v == (a % 256) * b
  IN  (u \div 256) + ((((u % 256) * 256) + v) \div 65536)

\* Math.imul(x, y): the low 32 bits of the product.
imul(x, y) ==
  LET xh == Hi16(x)
      xl == Lo16(x)
      yh == Hi16(y)
      yl == Lo16(y)
  IN  Word((Mul16(xh, yl) + Mul16(xl, yh) + MulHi16(xl, yl)) % 65536, Mul16(xl, yl))

\* stringToSeed, one iteration: hash = (hash << 5) - hash + char; hash |= 0.
stringToSeedStep(hash, char) ==
  md5_safe_add(md5_safe_add(Word((Hi16(hash) * 32 + (Lo16(hash) \div 2048)) % 65536,
                                 (Lo16(hash) * 32) % 65536),
                            md5_safe_add(BitNot(hash), 1)),
               char)

\* stringToSeed: the loop over the code units of key from unit k on.
RECURSIVE stringToSeedFrom(_, _, _)
stringToSeedFrom(key, k, hash) ==
  IF k > Len(key) THEN hash
  ELSE CHOOSE r \in {stringToSeedFrom(key, k + 1, h) :
                       h \in {stringToSeedStep(hash, key[k])}} : TRUE

\* stringToSeed: Math.abs of the hash.
stringToSeed(key) ==
  LET hash == stringToSeedFrom(key, 1, 0)
  IN  IF hash < 0 THEN md5_safe_add(BitNot(hash), 1) ELSE hash

\* The value of a lowercase hex digit.
hexValue(c) == IF c >= 97 THEN c - 87 ELSE c - 48

\* md5KeyToSeed: parseInt of the first eight hex digits of md5(key).
md5KeyToSeed(key) ==
  IF Len(key) = 0 THEN 0
  ELSE LET hash == md5(key)
       IN  Word(4096 * hexValue(hash[1]) + 256 * hexValue(hash[2]) + 16 * hexValue(hash[3])
                  + hexValue(hash[4]),
                4096 * hexValue(hash[5]) + 256 * hexValue(hash[6]) + 16 * hexValue(hash[7])
                  + hexValue(hash[8]))

\* mulberry32: the state after one call (seed += 0x6D2B79F5) ...
mulberry32Seed(seed) == md5_safe_add(seed, Word(27947, 31221))

\* ... and the 32 bits the call returns over 4294967296.
mulberry32Bits(seed) ==
  LET t0 == mulberry32Seed(seed)
      t1 == imul(BitXor(t0, ushr(t0, 15)), BitOr(t0, 1))
      t2 == BitXor(t1, md5_safe_add(t1, imul(BitXor(t1, ushr(t1, 7)), BitOr(t1, 61))))
  IN  BitXor(t2, ushr(t2, 14))

\* Math.floor(random() * n) for the 32 bits u of random() and 0 < n < 32768.
scaleRandom(u, n) == ((Hi16(u) * n) + ((Lo16(u) * n) \div 65536)) \div 65536

\* The loop of seededShuffle with result[i] = result[j] in place of the swap.
RECURSIVE shuffleRangeAssignOnly(_, _, _)
shuffleRangeAssignOnly(st, from, downTo) ==
  IF from < downTo THEN st
  ELSE IF from = downTo
    THEN LET j == scaleRandom(mulberry32Bits(st[2]), from + 1)
             arr == st[1]
         IN  <<[arr EXCEPT ![from + 1] = arr[j + 1]], mulberry32Seed(st[2])>>
  ELSE LET mid == (from + downTo) \div 2
       IN  CHOOSE r \in {shuffleRangeAssignOnly(s, mid, downTo) :
                           s \in {shuffleRangeAssignOnly(st, from, mid + 1)}} : TRUE

\* seededShuffle: the iterations of the loop for index = from down to downTo, on
\* the pair <<result, generator state>>.  Positions count from 0 as in the
\* source; result[q + 1] is the element at position q.
RECURSIVE shuffleRange(_, _, _)
shuffleRange(st, from, downTo) ==
  IF from < downTo THEN st
  ELSE IF from = downTo
    THEN LET j == scaleRandom(mulberry32Bits(st[2]), from + 1)
             arr == st[1]
             swapped == [arr EXCEPT ![from + 1] = arr[j + 1], ![j + 1] = arr[from + 1]]
         IN  <<swapped, mulberry32Seed(st[2])>>
  ELSE LET mid == (from + downTo) \div 2
       IN  CHOOSE r \in {shuffleRange(s, mid, downTo) :
                           s \in {shuffleRange(st, from, mid + 1)}} : TRUE

seededShuffle(array, seed) == shuffleRange(<<array \o <<>>, seed>>, Len(array) - 1, 1)[1]

(***************************************************************************)
(* LSB, Pattern LSB and MD5 Pattern LSB (steganographyService.ts,          *)
(* steganographyPatternLSBService.ts, steganographyMD5PatternService.ts).  *)
(* An image is its width, its height and the RGBA bytes of its ImageData;  *)
(* a PNG of opaque pixels gives back the bytes it was made from.           *)
(***************************************************************************)

\* "00000000".repeat(5)
MESSAGE_TERMINATOR_BINARY == [k \in 1..(8 * 5) |-> 0]

MAX_MESSAGE_LENGTH_CHARS == 5000

\* The end of the last occurrence of the terminator in binary.
lastTerminatorEnd(binary) ==
  LET n == Len(MESSAGE_TERMINATOR_BINARY)
      ends == {e \in n..Len(binary) : \A d \in 0..(n - 1) : binary[e - d] = 0}
  IN  IF ends = {} THEN 0 ELSE CHOOSE e \in ends : \A f \in ends : f <= e

\* The end of the first occurrence of the terminator in binary (the number of
\* bits read when endsWith first holds), 0 if there is none.
firstTerminatorEnd(binary) ==
  LET n == Len(MESSAGE_TERMINATOR_BINARY)
      ends == {e \in n..Len(binary) : \A d \in 0..(n - 1) : binary[e - d] = 0}
  IN  IF ends = {} THEN 0 ELSE CHOOSE e \in ends : \A f \in ends : e <= f

\* What a decoder does with the bits it read once the terminator has been
\* seen: the bits before it, as text, go to decryptMessage.
decodeExtracted(binary, password) ==
  LET e == firstTerminatorEnd(binary)
      partLength == e - Len(MESSAGE_TERMINATOR_BINARY)
      encryptedPayloadPart == [k \in 1..partLength |-> binary[k]]
      encryptedPayloadString == binaryToText(encryptedPayloadPart)
  IN  IF e = 0
        THEN (IF Len(binary) < Len(MESSAGE_TERMINATOR_BINARY)
                THEN <<"error", "NotEnoughData">>
                ELSE <<"error", "NoTerminator">>)
      ELSE IF partLength = 0 THEN <<"error", "OnlyTerminator">>
      ELSE IF Len(encryptedPayloadString) = 0 THEN <<"error", "ConversionFailed">>
      ELSE decryptMessage(encryptedPayloadString, password)

\* The arguments every encoder checks first: "" when they pass.
encodeArgumentError(message, password) ==
  IF Len(message) = 0 THEN "NoMessage"
  ELSE IF Len(password) = 0 THEN "NoPassword"
  ELSE IF Len(message) > MAX_MESSAGE_LENGTH_CHARS THEN "TooLong"
  ELSE ""

\* (data[k] & 0xFE) | bit
setLsb(byte, bit) == (byte - (byte % 2)) + bit

\* A capacity that counts the alpha bytes too.
maxBitsStorableAllChannels(data) == Len(data)

\* const maxBitsStorable = Math.floor(data.length / 4) * 3
maxBitsStorable(data) == (Len(data) \div 4) * 3

\* A loop that writes bit b to byte b, the alpha bytes among them.
lsbWriteLoopAllChannels(data, binaryMessage) ==
  [data |-> [k \in 1..Len(data) |->
               IF k <= Len(binaryMessage) THEN setLsb(data[k], binaryMessage[k])
               ELSE data[k]],
   exhausted |-> Len(binaryMessage) > Len(data)]

\* encodeMessage, the loop: it writes bit b to byte 4 * (b \div 3) + b % 3 and
\* throws once dataIndex has left the buffer with bits still to write.
lsbWriteLoop(data, binaryMessage) ==
  LET room == 3 * ((Len(data) + 3) \div 4)
      written == IF Len(binaryMessage) > room THEN room ELSE Len(binaryMessage)
  IN  [data |-> [k \in 1..Len(data) |->
                   LET b == 3 * ((k - 1) \div 4) + ((k - 1) % 4)
                   IN  IF (k - 1) % 4 < 3 /\ b < written
                         THEN setLsb(data[k], binaryMessage[b + 1])
                         ELSE data[k]],
       exhausted |-> Len(binaryMessage) > room]

\* encodeMessage with the salt and IV of draw: the Error thrown ("none" if it
\* returns), the ImageData buffer when it ends, the image and the payload.
encodeMessage(file, message, password, draw) ==
  LET encryptedPayload == encryptMessage(message, password, draw)
      binaryMessage == textToBinary(encryptedPayload) \o MESSAGE_TERMINATOR_BINARY
      loop == lsbWriteLoop(file.data, binaryMessage)
  IN  IF file.width = 0 THEN
        [error |-> "NoFile", data |-> <<>>, image |-> NoImage, payload |-> <<>>]
      ELSE IF encodeArgumentError(message, password) # "" THEN
        [error |-> encodeArgumentError(message, password), data |-> <<>>,
         image |-> NoImage, payload |-> <<>>]
      ELSE IF Len(binaryMessage) > maxBitsStorable(file.data) THEN
        [error |-> "CapacityExceeded", data |-> file.data, image |-> NoImage,
         payload |-> encryptedPayload]
      ELSE IF loop.exhausted THEN
        [error |-> "Exhausted", data |-> loop.data, image |-> NoImage,
         payload |-> encryptedPayload]
      ELSE
        [error |-> "none", data |-> loop.data,
         image |-> [width |-> file.width, height |-> file.height, data |-> loop.data],
         payload |-> encryptedPayload]

\* lsbEncodeRawPayload: the payload goes into the image as it is, without
\* encryption.
lsbEncodeRawPayload(file, payload) ==
  LET binaryMessage == textToBinary(payload) \o MESSAGE_TERMINATOR_BINARY
      loop == lsbWriteLoop(file.data, binaryMessage)
  IN  IF file.width = 0 THEN
        [error |-> "NoFile", data |-> <<>>, image |-> NoImage, payload |-> <<>>]
      ELSE IF Len(payload) = 0 THEN
        [error |-> "NoPayload", data |-> <<>>, image |-> NoImage, payload |-> <<>>]
      ELSE IF Len(binaryMessage) > maxBitsStorable(file.data) THEN
        [error |-> "CapacityExceeded", data |-> file.data, image |-> NoImage,
         payload |-> payload]
      ELSE IF loop.exhausted THEN
        [error |-> "Exhausted", data |-> loop.data, image |-> NoImage, payload |-> payload]
      ELSE
        [error |-> "none", data |-> loop.data,
         image |-> [width |-> file.width, height |-> file.height, data |-> loop.data],
         payload |-> payload]

\* decodeMessage: the LSBs of the R, G and B bytes in buffer order, up to the
\* first terminator.
decodeMessage(file, password) ==
  LET data == file.data
      maxBitsToRead == (Len(data) \div 4) * 3
      binaryEncryptedPayload ==
        [k \in 1..maxBitsToRead |-> data[4 * ((k - 1) \div 3) + ((k - 1) % 3) + 1] % 2]
          \o <<>>
  IN  IF file.width = 0 THEN <<"error", "NoFile">>
      ELSE IF Len(password) = 0 THEN <<"error", "NoPassword">>
      ELSE decodeExtracted(binaryEncryptedPayload, password)

\* let pixelIndices = Array.from({ length: numPixels }, (_, i) => i), shuffled.
pixelOrder(numPixels, seed) == seededShuffle([q \in 1..numPixels |-> q - 1], seed)

\* The pattern encoders' loop for the pixels at places from to upTo of
\* pixelIndices (places count from 1 here): bit 3 * (q - 1) + channel of the
\* first written bits goes to that channel of the pixel at place q.
RECURSIVE patternWriteRange(_, _, _, _, _, _)
patternWriteRange(data, binaryMessage, pixelIndices, written, from, upTo) ==
  IF from > upTo THEN data
  ELSE IF from = upTo
    THEN LET at == 4 * pixelIndices[from]
             b == 3 * (from - 1)
             put(channel) == IF b + channel < written
                               THEN setLsb(data[at + channel + 1], binaryMessage[b + channel + 1])
                               ELSE data[at + channel + 1]
         IN  [data EXCEPT ![at + 1] = put(0), ![at + 2] = put(1), ![at + 3] = put(2)]
  ELSE CHOOSE r \in
         {patternWriteRange(d, binaryMessage, pixelIndices, written,
                            ((from + upTo) \div 2) + 1, upTo) :
            d \in {patternWriteRange(data, binaryMessage, pixelIndices, written, from,
                                     (from + upTo) \div 2)}} : TRUE

\* The loop runs while there are bits and pixels; the encoder throws after it
\* when bits are left.
patternWriteLoop(data, binaryMessage, pixelIndices) ==
  LET numPixels == Len(pixelIndices)
      written == IF Len(binaryMessage) > 3 * numPixels THEN 3 * numPixels
                 ELSE Len(binaryMessage)
  IN  [data |-> patternWriteRange(data \o <<>>, binaryMessage \o <<>>, pixelIndices, written,
                                  1, (written + 2) \div 3),
       exhausted |-> written < Len(binaryMessage)]

\* encodeMessagePatternLSB and encodeMessageMD5Pattern after the seed has been
\* derived from the stego key (the two differ in nothing else).
patternEncode(file, message, stegoKey, password, draw, seed) ==
  LET encryptedPayload == encryptMessage(message, password, draw)
      binaryEncryptedMessage == textToBinary(encryptedPayload) \o MESSAGE_TERMINATOR_BINARY
      numPixels == file.width * file.height
      argumentError == IF Len(message) = 0 THEN "NoMessage"
                       ELSE IF Len(stegoKey) = 0 THEN "NoStegoKey"
                       ELSE encodeArgumentError(message, password)
  IN  IF file.width = 0 THEN
        [error |-> "NoFile", data |-> <<>>, image |-> NoImage, payload |-> <<>>]
      ELSE IF argumentError # "" THEN
        [error |-> argumentError, data |-> <<>>, image |-> NoImage, payload |-> <<>>]
      ELSE IF Len(binaryEncryptedMessage) > numPixels * 3 THEN
        [error |-> "CapacityExceeded", data |-> file.data, image |-> NoImage,
         payload |-> encryptedPayload]
      ELSE CHOOSE r \in
             {IF loop.exhausted
                THEN [error |-> "Exhausted", data |-> loop.data, image |-> NoImage,
                      payload |-> encryptedPayload]
                ELSE [error |-> "none", data |-> loop.data,
                      image |-> [width |-> file.width, height |-> file.height,
                                 data |-> loop.data],
                      payload |-> encryptedPayload] :
              loop \in {patternWriteLoop(file.data, binaryEncryptedMessage, order) :
                          order \in {pixelOrder(numPixels, seed)}}} : TRUE

encodeMessagePatternLSB(file, message, stegoKey, password, draw) ==
  patternEncode(file, message, stegoKey, password, draw, stringToSeed(stegoKey))

encodeMessageMD5Pattern(file, message, stegoKey, password, draw) ==
  patternEncode(file, message, stegoKey, password, draw, md5KeyToSeed(stegoKey))

\* A reading of the LSBs of R, G and B in buffer order, whatever pixelIndices.
patternBitsBufferOrder(data, pixelIndices) ==
  [k \in 1..(3 * Len(pixelIndices)) |-> data[4 * ((k - 1) \div 3) + ((k - 1) % 3) + 1] % 2]

\* The bits a pattern decoder reads: the LSBs of R, G and B of the pixels in
\* the order of pixelIndices.
patternBits(data, pixelIndices) ==
  [k \in 1..(3 * Len(pixelIndices)) |->
     data[4 * pixelIndices[((k - 1) \div 3) + 1] + ((k - 1) % 3) + 1] % 2]

\* decodeMessagePatternLSB and decodeMessageMD5Pattern after the seed has been
\* derived from the stego key.
patternDecode(file, stegoKey, password, seed) ==
  IF file.width = 0 THEN <<"error", "NoFile">>
  ELSE IF Len(stegoKey) = 0 THEN <<"error", "NoStegoKey">>
  ELSE IF Len(password) = 0 THEN <<"error", "NoPassword">>
  ELSE CHOOSE r \in {decodeExtracted(patternBits(file.data, order), password) :
                       order \in {pixelOrder(file.width * file.height, seed)}} : TRUE

decodeMessagePatternLSB(file, stegoKey, password) ==
  patternDecode(file, stegoKey, password, stringToSeed(stegoKey))

decodeMessageMD5Pattern(file, stegoKey, password) ==
  patternDecode(file, stegoKey, password, md5KeyToSeed(stegoKey))

(***************************************************************************)
(* Random Dot and Morse draw on a canvas of their own                      *)
(* (steganographyRDService.ts and the Morse service).  A canvas is its     *)
(* width, its height and its rows of RGBA pixels; every pixel of the       *)
(* canvases drawn here is opaque, and a PNG of opaque pixels gives back    *)
(* the pixels it was made from.                                            *)
(***************************************************************************)

\* document.createElement('canvas') with width w and height h: transparent
\* black.
createCanvas(w, h) ==
  LET blank == [k \in 1..w |-> <<0, 0, 0, 0>>] \o <<>>
  IN  [width |-> w, height |-> h, rows |-> [r \in 1..h |-> blank] \o <<>>]

\* The pixels x .. x + w - 1 of a row painted with an opaque colour, clipped
\* to the row.
fillRow(row, x, w, colour) ==
  LET lo == IF x < 0 THEN 0 ELSE x
      hi == IF x + w > Len(row) THEN Len(row) ELSE x + w
  IN  IF hi <= lo THEN row
      ELSE SubSeq(row, 1, lo) \o [k \in 1..(hi - lo) |-> colour \o <<255>>]
             \o SubSeq(row, hi + 1, Len(row))

\* The rows from .. upTo (counted from 1) painted from x over w pixels.
RECURSIVE fillRows(_, _, _, _, _, _)
fillRows(rows, x, w, colour, from, upTo) ==
  IF from > upTo THEN rows
  ELSE IF from = upTo THEN [rows EXCEPT ![from] = fillRow(rows[from], x, w, colour)]
  ELSE CHOOSE r \in
         {fillRows(half, x, w, colour, ((from + upTo) \div 2) + 1, upTo) :
            half \in {fillRows(rows, x, w, colour, from, (from + upTo) \div 2)}} : TRUE

\* ctx.fillRect(x, y, w, h) with fillStyle colour, clipped to the canvas.
fillRect(canvas, x, y, w, h, colour) ==
  LET top == IF y < 0 THEN 0 ELSE y
      bottom == IF y + h > canvas.height THEN canvas.height ELSE y + h
  IN  [canvas EXCEPT !.rows = fillRows(canvas.rows, x, w, colour, top + 1, bottom)]

\* getImageData(x, y, 1, 1).data: transparent black outside the canvas.
pixelAt(canvas, x, y) ==
  IF x < 0 \/ x >= canvas.width \/ y < 0 \/ y >= canvas.height THEN <<0, 0, 0, 0>>
  ELSE canvas.rows[y + 1][x + 1]

\* (r + g + b) / 3 < 128
isDark(pixel) == pixel[1] + pixel[2] + pixel[3] < 3 * 128

DOT_SIZE == 5
DOT_SPACING == 2
DOTS_PER_ROW == 48
COLOR_BIT_1 == <<0, 0, 0>>
COLOR_BIT_0 == <<255, 255, 255>>

\* '#E0E0E0'
RD_BACKGROUND_COLOR == <<224, 224, 224>>

\* encodeRDMessage, the loop over the dots from .. upTo (counted from 0).
RECURSIVE rdDrawDots(_, _, _, _)
rdDrawDots(canvas, binary, from, upTo) ==
  IF from > upTo THEN canvas
  ELSE IF from = upTo
    THEN LET row == from \div DOTS_PER_ROW
             col == from % DOTS_PER_ROW
             x == DOT_SPACING + col * (DOT_SIZE + DOT_SPACING)
             y == DOT_SPACING + row * (DOT_SIZE + DOT_SPACING)
         IN  fillRect(canvas, x, y, DOT_SIZE, DOT_SIZE,
                      IF binary[from + 1] = 1 THEN COLOR_BIT_1 ELSE COLOR_BIT_0)
  ELSE CHOOSE r \in
         {rdDrawDots(half, binary, ((from + upTo) \div 2) + 1, upTo) :
            half \in {rdDrawDots(canvas, binary, from, (from + upTo) \div 2)}} : TRUE

\* encodeRDMessage with the salt and IV of draw: the Error thrown ("none" if
\* it returns), the image, the payload and its binary string with the
\* terminator.
encodeRDMessage(message, password, draw) ==
  LET encryptedPayload == encryptMessage(message, password, draw)
      binaryEncryptedPayloadWithTerminator ==
        (textToBinary(encryptedPayload) \o MESSAGE_TERMINATOR_BINARY) \o <<>>
      numDots == Len(binaryEncryptedPayloadWithTerminator)
      numRows == (numDots + DOTS_PER_ROW - 1) \div DOTS_PER_ROW
      canvasWidth == DOTS_PER_ROW * (DOT_SIZE + DOT_SPACING) + DOT_SPACING
      canvasHeight == numRows * (DOT_SIZE + DOT_SPACING) + DOT_SPACING
  IN  IF encodeArgumentError(message, password) # "" THEN
        [error |-> encodeArgumentError(message, password), image |-> NoImage,
         payload |-> <<>>, binaryEncryptedPayloadWithTerminator |-> <<>>]
      ELSE CHOOSE r \in
             {[error |-> "none",
               image |-> rdDrawDots(background, binaryEncryptedPayloadWithTerminator, 0,
                                    numDots - 1),
               payload |-> encryptedPayload,
               binaryEncryptedPayloadWithTerminator |->
                 binaryEncryptedPayloadWithTerminator] :
              background \in {fillRect(createCanvas(canvasWidth, canvasHeight), 0, 0,
                                       canvasWidth, canvasHeight, RD_BACKGROUND_COLOR)}} :
             TRUE

\* decodeRDMessage, the bits read: one per grid cell, row by row, from the
\* pixel at the centre of the cell.  (The centre of every cell counted by
\* numRows and numCols lies on the canvas, so the loop skips none.)
rdBits(file) ==
  LET numRows == (file.height - DOT_SPACING) \div (DOT_SIZE + DOT_SPACING)
      numCols == (file.width - DOT_SPACING) \div (DOT_SIZE + DOT_SPACING)
  IN  [k \in 1..(numRows * numCols) |->
         LET row == (k - 1) \div numCols
             col == (k - 1) % numCols
             dotCenterX == DOT_SPACING + col * (DOT_SIZE + DOT_SPACING) + (DOT_SIZE \div 2)
             dotCenterY == DOT_SPACING + row * (DOT_SIZE + DOT_SPACING) + (DOT_SIZE \div 2)
         IN  IF isDark(pixelAt(file, dotCenterX, dotCenterY)) THEN 1 ELSE 0] \o <<>>

\* decodeRDMessage: the bits before the first terminator (indexOf), as text,
\* go to decryptMessage.
decodeRDMessage(file, password) ==
  LET numRows == (file.height - DOT_SPACING) \div (DOT_SIZE + DOT_SPACING)
      numCols == (file.width - DOT_SPACING) \div (DOT_SIZE + DOT_SPACING)
      binaryEncryptedPayload == IF numRows > 0 /\ numCols > 0 THEN rdBits(file) ELSE <<>>
      terminatorIndex ==
        firstTerminatorEnd(binaryEncryptedPayload) - Len(MESSAGE_TERMINATOR_BINARY)
      encryptedPayloadString == binaryToText(SubSeq(binaryEncryptedPayload, 1, terminatorIndex))
  IN  IF file.width = 0 THEN <<"error", "NoFile">>
      ELSE IF Len(password) = 0 THEN <<"error", "NoPassword">>
      ELSE IF numRows = 0 \/ numCols = 0 THEN <<"error", "TooSmall">>
      ELSE IF terminatorIndex < 0 THEN <<"error", "NoTerminator">>
      ELSE IF terminatorIndex = 0 THEN <<"error", "OnlyTerminator">>
      ELSE IF Len(encryptedPayloadString) = 0 THEN <<"error", "ConversionFailed">>
      ELSE decryptMessage(encryptedPayloadString, password)

\* decryptRDMessageFromBinary on a string of the characters 0 and 1: the bits
\* before the first terminator (indexOf), as text, go to decryptMessage.
decryptRDMessageFromBinary(binaryStringWithTerminator, password) ==
  LET terminatorIndex ==
        firstTerminatorEnd(binaryStringWithTerminator) - Len(MESSAGE_TERMINATOR_BINARY)
      binaryEncryptedPayload == SubSeq(binaryStringWithTerminator, 1, terminatorIndex)
      encryptedPayloadString == binaryToText(binaryEncryptedPayload)
  IN  IF Len(binaryStringWithTerminator) = 0 THEN <<"error", "NoBinaryString">>
      ELSE IF Len(password) = 0 THEN <<"error", "NoPassword">>
      ELSE IF terminatorIndex < 0 THEN <<"error", "NoTerminator">>
      ELSE IF terminatorIndex = 0 THEN <<"error", "OnlyTerminator">>
      ELSE IF Len(encryptedPayloadString) = 0
        THEN (IF Len(binaryEncryptedPayload) % 8 # 0
                THEN <<"error", "NotMultipleOf8">>
                ELSE <<"error", "ConversionFailed">>)
      ELSE decryptMessage(encryptedPayloadString, password)

UNIT_SIZE == 4
DAH_UNITS == 3
ELEM_GAP_UNITS == 1
CHAR_GAP_UNITS == 3
UNITS_PER_ROW == 100
LINE_SPACING == UNIT_SIZE * 2

\* '#F0F0F0' and '#000000'
MORSE_BACKGROUND_COLOR == <<240, 240, 240>>
FOREGROUND_COLOR == <<0, 0, 0>>

\* '.', '-' and ' '
Dot == 46
Dash == 45
Space == 32

\* The Morse words of the hex digits 0 .. 9, a .. f, in that order.
MorseWords ==
  << <<Dash, Dash, Dash, Dash, Dash>>, <<Dot, Dash, Dash, Dash, Dash>>,
     <<Dot, Dot, Dash, Dash, Dash>>, <<Dot, Dot, Dot, Dash, Dash>>,
     <<Dot, Dot, Dot, Dot, Dash>>, <<Dot, Dot, Dot, Dot, Dot>>,
     <<Dash, Dot, Dot, Dot, Dot>>, <<Dash, Dash, Dot, Dot, Dot>>,
     <<Dash, Dash, Dash, Dot, Dot>>, <<Dash, Dash, Dash, Dash, Dot>>,
     <<Dot, Dash>>, <<Dash, Dot, Dot, Dot>>, <<Dash, Dot, Dash, Dot>>,
     <<Dash, Dot, Dot>>, <<Dot>>, <<Dot, Dot, Dash, Dot>> >>

\* The lowercase hex digit of v in 0 .. 15.
hexDigit(v) == IF v < 10 THEN 48 + v ELSE 87 + v

isHexDigit(c) == (c >= 48 /\ c <= 57) \/ (c >= 97 /\ c <= 102)

\* MORSE_CODE_MAP[char]: <<>> stands for undefined.
MORSE_CODE_MAP(char) == IF isHexDigit(char) THEN MorseWords[hexValue(char) + 1] ELSE <<>>

\* REVERSE_MORSE_CODE_MAP[morseChar]: 0 stands for undefined.
REVERSE_MORSE_CODE_MAP(morseChar) ==
  IF \E v \in 0..15 : MorseWords[v + 1] = morseChar
    THEN hexDigit(CHOOSE v \in 0..15 : MorseWords[v + 1] = morseChar)
    ELSE 0

\* arrayBufferToHex: two lowercase hex digits per byte.
arrayBufferToHex(buffer) ==
  [k \in 1..(2 * Len(buffer)) |->
     IF k % 2 = 1 THEN hexDigit(buffer[(k + 1) \div 2] \div 16)
     ELSE hexDigit(buffer[k \div 2] % 16)] \o <<>>

\* hexToArrayBuffer on a string of lowercase hex digits: <<"ok", bytes>>, or
\* <<"error">> for the Error it throws on an odd length.
hexToArrayBuffer(hex) ==
  IF Len(hex) % 2 # 0 THEN <<"error">>
  ELSE <<"ok", [k \in 1..(Len(hex) \div 2) |->
                  16 * hexValue(hex[2 * k - 1]) + hexValue(hex[2 * k])] \o <<>>>>

\* The visual elements of the hex digits from .. upTo of hexString: the dits
\* and dahs of a digit with an elem_gap between two of them, and a char_gap
\* after every digit but the last of the string.
RECURSIVE visualElements(_, _, _)
visualElements(hexString, from, upTo) ==
  IF from > upTo THEN <<>>
  ELSE IF from = upTo
    THEN LET morse == MORSE_CODE_MAP(hexString[from])
         IN  [k \in 1..(IF Len(morse) = 0 THEN 0 ELSE 2 * Len(morse) - 1) |->
                IF k % 2 = 0 THEN "elem_gap"
                ELSE IF morse[(k + 1) \div 2] = Dot THEN "dit" ELSE "dah"]
               \o (IF from < Len(hexString) THEN <<"char_gap">> ELSE <<>>)
  ELSE visualElements(hexString, from, (from + upTo) \div 2)
         \o visualElements(hexString, ((from + upTo) \div 2) + 1, upTo)

unitsOf(el) ==
  IF el = "dit" THEN 1
  ELSE IF el = "dah" THEN DAH_UNITS
  ELSE IF el = "elem_gap" THEN ELEM_GAP_UNITS
  ELSE CHAR_GAP_UNITS

\* totalUnits over the elements from .. upTo.
RECURSIVE totalUnits(_, _, _)
totalUnits(elements, from, upTo) ==
  IF from > upTo THEN 0
  ELSE IF from = upTo THEN unitsOf(elements[from])
  ELSE totalUnits(elements, from, (from + upTo) \div 2)
         + totalUnits(elements, ((from + upTo) \div 2) + 1, upTo)

\* encodeMorseMessage, one turn of the drawing loop: an element that does not
\* fit the rest of the row starts the next row; a dit or dah is painted.
drawElement(pen, el) ==
  LET wraps == pen.currentX + (unitsOf(el) * UNIT_SIZE) > pen.canvas.width
      x == IF wraps THEN 0 ELSE pen.currentX
      y == IF wraps THEN pen.currentY + UNIT_SIZE + LINE_SPACING ELSE pen.currentY
  IN  [currentX |-> x + unitsOf(el) * UNIT_SIZE,
       currentY |-> y,
       canvas |-> IF el \in {"dit", "dah"}
                    THEN fillRect(pen.canvas, x, y, unitsOf(el) * UNIT_SIZE, UNIT_SIZE,
                                  FOREGROUND_COLOR)
                    ELSE pen.canvas]

\* The drawing loop over the elements from .. upTo.
RECURSIVE drawElements(_, _, _, _)
drawElements(pen, elements, from, upTo) ==
  IF from > upTo THEN pen
  ELSE IF from = upTo THEN drawElement(pen, elements[from])
  ELSE CHOOSE r \in
         {drawElements(half, elements, ((from + upTo) \div 2) + 1, upTo) :
            half \in {drawElements(pen, elements, from, (from + upTo) \div 2)}} : TRUE

\* encodeMorseMessage with the salt and IV of draw: the Error thrown ("none"
\* if it returns), the image, the payload and its hex string.
encodeMorseMessage(message, password, draw) ==
  LET encryptedPayload == encryptMessage(message, password, draw)
      hexString == arrayBufferToHex(stringToArrayBuffer(encryptedPayload))
      elements == visualElements(hexString, 1, Len(hexString))
      numRows == (totalUnits(elements, 1, Len(elements)) + UNITS_PER_ROW - 1)
                   \div UNITS_PER_ROW
      canvasWidth == UNITS_PER_ROW * UNIT_SIZE
      canvasHeight == numRows * UNIT_SIZE
                        + (IF numRows > 1 THEN numRows - 1 ELSE 0) * LINE_SPACING
  IN  IF encodeArgumentError(message, password) # "" THEN
        [error |-> encodeArgumentError(message, password), image |-> NoImage,
         payload |-> <<>>, hexString |-> <<>>]
      ELSE CHOOSE r \in
             {[error |-> "none",
               image |-> drawElements([currentX |-> 0, currentY |-> 0,
                                       canvas |-> background],
                                      elements, 1, Len(elements)).canvas,
               payload |-> encryptedPayload,
               hexString |-> hexString] :
              background \in {fillRect(createCanvas(canvasWidth, canvasHeight), 0, 0,
                                       canvasWidth, canvasHeight,
                                       MORSE_BACKGROUND_COLOR)}} : TRUE

\* decodeMorseMessage, the scan: one unit per UNIT_SIZE pixels of every
\* scanned line, black when the pixel at its centre is dark.
unitSequence(file) ==
  LET lines == (file.height + UNIT_SIZE + LINE_SPACING - 1) \div (UNIT_SIZE + LINE_SPACING)
      perLine == (file.width + UNIT_SIZE - 1) \div UNIT_SIZE
  IN  [k \in 1..(lines * perLine) |->
         LET x == ((k - 1) % perLine) * UNIT_SIZE
             y == ((k - 1) \div perLine) * (UNIT_SIZE + LINE_SPACING)
         IN  IF isDark(pixelAt(file, x + (UNIT_SIZE \div 2), y + (UNIT_SIZE \div 2)))
               THEN "B" ELSE "W"] \o <<>>

isBlack(units, k) == k >= 1 /\ k <= Len(units) /\ units[k] = "B"

isWhite(units, k) == k >= 1 /\ k <= Len(units) /\ units[k] = "W"

\* A run of black units starts at k.
runStartsAt(units, k) == isBlack(units, k) /\ ~isBlack(units, k - 1)

\* blackCount of the run that starts at k; 4 stands for 4 or more.
blackCountAt(units, k) ==
  IF ~isBlack(units, k + 1) THEN 1
  ELSE IF ~isBlack(units, k + 2) THEN 2
  ELSE IF ~isBlack(units, k + 3) THEN 3
  ELSE 4

\* What the parser appends for the runs that start in from .. upTo: '-' for
\* three black units, '.' for one, and ' ' when whiteCount, the white units
\* that follow up to the next black unit or the end, is CHAR_GAP_UNITS or
\* more.
RECURSIVE morseOfRuns(_, _, _)
morseOfRuns(units, from, upTo) ==
  IF from > upTo THEN <<>>
  ELSE IF from = upTo
    THEN (IF runStartsAt(units, from)
            THEN LET blackCount == blackCountAt(units, from)
                     after == from + blackCount
                 IN  <<IF blackCount = DAH_UNITS THEN Dash ELSE Dot>>
                       \o (IF \A d \in 0..(CHAR_GAP_UNITS - 1) : isWhite(units, after + d)
                             THEN <<Space>> ELSE <<>>)
            ELSE <<>>)
  ELSE morseOfRuns(units, from, (from + upTo) \div 2)
         \o morseOfRuns(units, ((from + upTo) \div 2) + 1, upTo)

\* String.prototype.trim for strings whose only white space is ' '.
RECURSIVE trim(_)
trim(str) ==
  IF Len(str) = 0 THEN str
  ELSE IF str[1] = Space THEN trim(SubSeq(str, 2, Len(str)))
  ELSE IF str[Len(str)] = Space THEN trim(SubSeq(str, 1, Len(str) - 1))
  ELSE str

\* The hex digits of the Morse words from .. upTo of morseChars.
RECURSIVE hexOfMorse(_, _, _)
hexOfMorse(morseChars, from, upTo) ==
  IF from > upTo THEN <<>>
  ELSE IF from = upTo
    THEN (IF REVERSE_MORSE_CODE_MAP(morseChars[from]) = 0 THEN <<>>
          ELSE <<REVERSE_MORSE_CODE_MAP(morseChars[from])>>)
  ELSE hexOfMorse(morseChars, from, (from + upTo) \div 2)
         \o hexOfMorse(morseChars, ((from + upTo) \div 2) + 1, upTo)

\* decryptMorseMessageFromHex: every Error of the conversion and of
\* decryptMessage is thrown again as 'Decryption from hex string failed'.
decryptMorseMessageFromHex(hexString, password) ==
  LET encryptedPayloadBuffer == hexToArrayBuffer(hexString)
      inner == decryptMessage(arrayBufferToString(encryptedPayloadBuffer[2]), password)
  IN  IF Len(hexString) = 0 THEN <<"error", "NoHexString">>
      ELSE IF Len(password) = 0 THEN <<"error", "NoPassword">>
      ELSE IF encryptedPayloadBuffer[1] = "error" THEN <<"error", "FromHexFailed", "OddLength">>
      ELSE IF inner[1] = "error" THEN <<"error", "FromHexFailed", inner[2]>>
      ELSE inner

\* decodeMorseMessage: <<"ok", message>>, or <<"error", which>> for the Error
\* it throws.
decodeMorseMessage(file, password) ==
  IF file.width = 0 THEN <<"error", "NoFile">>
  ELSE IF Len(password) = 0 THEN <<"error", "NoPassword">>
  ELSE CHOOSE r \in
    {IF \E k \in 1..Len(units) :
          runStartsAt(units, k) /\ blackCountAt(units, k) \notin {1, DAH_UNITS}
       THEN <<"error", "InvalidSymbolShape">>
       ELSE LET morseChars == split(trim(morseOfRuns(units, 1, Len(units))), Space)
                hexString == hexOfMorse(morseChars, 1, Len(morseChars))
            IN  IF \E j \in 1..Len(morseChars) :
                     Len(morseChars[j]) > 0 /\ REVERSE_MORSE_CODE_MAP(morseChars[j]) = 0
                  THEN <<"error", "NoHexEquivalent">>
                ELSE IF Len(hexString) = 0 THEN <<"error", "NoHexString">>
                ELSE decryptMorseMessageFromHex(hexString, password) :
     units \in {unitSequence(file)}} : TRUE

(***************************************************************************)
(* The codecs as state machines: one encode call, then decode calls on the *)
(* image it produced.                                                      *)
(***************************************************************************)

\* The search engine while a codec runs.
CrackIdle ==
  /\ job = [mode |-> "none", targetHash |-> <<>>, wordlist |-> <<>>, charset |-> <<>>,
            maxLength |-> 0]
  /\ pc = "idle"
  /\ aborted = FALSE
  /\ outcome = "pending"
  /\ result = <<>>
  /\ checked = 0
  /\ currentIndex = 0
  /\ gen = <<>>
  /\ i = 0
  /\ batchEnd = 0
  /\ progress = <<>>
  /\ tested = <<>>
  /\ batch = NoBatch

Messages == {Msg_hi, Msg_a, Msg_e_acute, Msg_bom_hi}
EncodePasswords == {Pwd_correct_horse, Pwd_wrong}
DecodePasswords == EncodePasswords \cup {Pwd_Correct_Horse}

\* "key-1" and "k"
Key_1 == <<107, 101, 121, 45, 49>>
Key_k == <<107>>
StegoKeys == {Key_1, Key_k}

\* Width and height of the largest carrier of the model.
CarrierWidth == 21
CarrierHeight == 10

\* An opaque carrier image of w by h pixels.
carrierImage(w, h) ==
  [width |-> w, height |-> h,
   data |-> [k \in 1..(4 * w * h) |-> IF k % 4 = 0 THEN 255 ELSE ((k * 37) + 11) % 256]]

\* A carrier of a few pixels, one a row short of the largest and the largest.
Carriers ==
  {carrierImage(3, 3), carrierImage(CarrierWidth, CarrierHeight - 1),
   carrierImage(CarrierWidth, CarrierHeight)}

\* What every codec starts from.
StegoReady ==
  /\ secret \in Messages
  /\ passphrase \in EncodePasswords
  /\ imageData = <<>>
  /\ sentPayload = <<>>
  /\ intermediate = <<>>
  /\ stego = NoImage
  /\ encodeError = "none"
  /\ decodePassphrase = <<>>
  /\ decodeKey = <<>>
  /\ decoded = <<"pending">>
  /\ phase = "ready"

InitCarrier ==
  /\ CrackIdle
  /\ NoPanel
  /\ NoShuffle
  /\ NoUtil
  /\ NoApp
  /\ StegoReady
  /\ scheme \in {"lsb", "pattern", "md5pattern"}
  /\ patternKey \in (IF scheme = "lsb" THEN {<<>>} ELSE StegoKeys)
  /\ carrier \in Carriers

\* The end of an encode call that returned or threw r.
Encoded(r) ==
  /\ imageData' = r.data
  /\ sentPayload' = r.payload
  /\ intermediate' = (IF "intermediate" \in DOMAIN r THEN r.intermediate ELSE <<>>)
  /\ stego' = r.image
  /\ encodeError' = r.error
  /\ phase' = "encoded"
  /\ UNCHANGED <<scheme, secret, passphrase, patternKey, carrier, decodePassphrase, decodeKey,
                 decoded>>
  /\ UNCHANGED <<crackVars, panelVars, shuffleVars, utilVars, appVars>>

\* The end of a decode call with password and stegoKey that returned or threw r.
Decoded(r, password, stegoKey) ==
  /\ decoded' = r
  /\ decodePassphrase' = password
  /\ decodeKey' = stegoKey
  /\ phase' = "decoded"
  /\ UNCHANGED <<scheme, secret, passphrase, patternKey, carrier, imageData, sentPayload,
                 intermediate, stego, encodeError>>
  /\ UNCHANGED <<crackVars, panelVars, shuffleVars, utilVars, appVars>>

EncodeLSB ==
  /\ scheme = "lsb" /\ phase = "ready"
  /\ \E draw \in Draws :
       \E r \in {encodeMessage(carrier, secret, passphrase, draw)} : Encoded(r)

\* lsbEncodeRawPayload called with the message for its payload.
EncodeLSBRaw ==
  /\ scheme = "lsb" /\ phase = "ready"
  /\ \E r \in {lsbEncodeRawPayload(carrier, secret)} :
       /\ imageData' = r.data
       /\ sentPayload' = r.payload
       /\ stego' = r.image
       /\ encodeError' = r.error
  /\ phase' = "encodedRaw"
  /\ UNCHANGED <<scheme, secret, passphrase, patternKey, carrier, intermediate,
                 decodePassphrase, decodeKey, decoded>>
  /\ UNCHANGED <<crackVars, panelVars, shuffleVars, utilVars, appVars>>

DecodeLSB ==
  /\ scheme = "lsb" /\ phase = "encoded" /\ encodeError = "none"
  /\ \E password \in EncodePasswords :
       \E r \in {decodeMessage(stego, password)} : Decoded(r, password, <<>>)

EncodePatternLSB ==
  /\ scheme = "pattern" /\ phase = "ready"
  /\ \E draw \in Draws :
       \E r \in {encodeMessagePatternLSB(carrier, secret, patternKey, passphrase, draw)} :
         Encoded(r)

DecodePatternLSB ==
  /\ scheme = "pattern" /\ phase = "encoded" /\ encodeError = "none"
  /\ \E password \in EncodePasswords, stegoKey \in StegoKeys :
       \E r \in {decodeMessagePatternLSB(stego, stegoKey, password)} :
         Decoded(r, password, stegoKey)

EncodeMD5Pattern ==
  /\ scheme = "md5pattern" /\ phase = "ready"
  /\ \E draw \in Draws :
       \E r \in {encodeMessageMD5Pattern(carrier, secret, patternKey, passphrase, draw)} :
         Encoded(r)

DecodeMD5Pattern ==
  /\ scheme = "md5pattern" /\ phase = "encoded" /\ encodeError = "none"
  /\ \E password \in EncodePasswords, stegoKey \in StegoKeys :
       \E r \in {decodeMessageMD5Pattern(stego, stegoKey, password)} :
         Decoded(r, password, stegoKey)

NextCarrier ==
  \/ EncodeLSB
  \/ EncodeLSBRaw
  \/ DecodeLSB
  \/ EncodePatternLSB
  \/ DecodePatternLSB
  \/ EncodeMD5Pattern
  \/ DecodeMD5Pattern

SpecCarrier == InitCarrier /\ [][NextCarrier]_vars

(***************************************************************************)
(* Random Dot and Morse: one encode call, then decode calls on the image   *)
(* it drew.                                                                *)
(***************************************************************************)

InitCanvas ==
  /\ CrackIdle
  /\ NoPanel
  /\ NoShuffle
  /\ NoUtil
  /\ NoApp
  /\ StegoReady
  /\ scheme \in {"rd", "morse"}
  /\ patternKey = <<>>
  /\ carrier = NoImage

\* The end of an encode call on a canvas of its own that returned or threw r,
\* text the string it returned besides the image.
Drawn(r, text) ==
  Encoded([error |-> r.error, data |-> <<>>, image |-> r.image, payload |-> r.payload,
           intermediate |-> text])

EncodeRD ==
  /\ scheme = "rd" /\ phase = "ready"
  /\ \E draw \in Draws :
       \E r \in {encodeRDMessage(secret, passphrase, draw)} :
         Drawn(r, r.binaryEncryptedPayloadWithTerminator)

DecodeRD ==
  /\ scheme = "rd" /\ phase = "encoded" /\ encodeError = "none"
  /\ \E password \in DecodePasswords :
       \E r \in {decodeRDMessage(stego, password)} : Decoded(r, password, <<>>)

EncodeMorse ==
  /\ scheme = "morse" /\ phase = "ready"
  /\ \E draw \in Draws :
       \E r \in {encodeMorseMessage(secret, passphrase, draw)} : Drawn(r, r.hexString)

DecodeMorse ==
  /\ scheme = "morse" /\ phase = "encoded" /\ encodeError = "none"
  /\ \E password \in DecodePasswords :
       \E r \in {decodeMorseMessage(stego, password)} : Decoded(r, password, <<>>)

\* The end of a call of a secondary entry with password, on the string encode
\* returned (whole) or on that string without its last character, that
\* returned or threw r.
DecodedFromText(r, password, whole) ==
  /\ decoded' = r
  /\ decodePassphrase' = password
  /\ decodeKey' = <<>>
  /\ phase' = (IF whole THEN "decodedFromText" ELSE "decodedFromCutText")
  /\ UNCHANGED <<scheme, secret, passphrase, patternKey, carrier, imageData, sentPayload,
                 intermediate, stego, encodeError>>
  /\ UNCHANGED <<crackVars, panelVars, shuffleVars, utilVars, appVars>>

\* decryptRDMessageFromBinary on the binary string encodeRDMessage returned.
DecryptRDFromBinary ==
  /\ scheme = "rd" /\ phase = "encoded" /\ encodeError = "none"
  /\ \E password \in DecodePasswords :
       \E r \in {decryptRDMessageFromBinary(intermediate, password)} :
         DecodedFromText(r, password, TRUE)

\* decryptMorseMessageFromHex on the hex string encodeMorseMessage returned.
DecryptMorseFromHex ==
  /\ scheme = "morse" /\ phase = "encoded" /\ encodeError = "none"
  /\ \E password \in DecodePasswords :
       \E r \in {decryptMorseMessageFromHex(intermediate, password)} :
         DecodedFromText(r, password, TRUE)

\* decryptMorseMessageFromHex on that hex string with its last digit lost.
DecryptMorseFromCutHex ==
  /\ scheme = "morse" /\ phase = "encoded" /\ encodeError = "none"
  /\ \E password \in DecodePasswords :
       \E r \in {decryptMorseMessageFromHex(SubSeq(intermediate, 1, Len(intermediate) - 1),
                                            password)} :
         DecodedFromText(r, password, FALSE)

NextCanvas ==
  \/ EncodeRD
  \/ DecodeRD
  \/ DecryptRDFromBinary
  \/ EncodeMorse
  \/ DecodeMorse
  \/ DecryptMorseFromHex
  \/ DecryptMorseFromCutHex

SpecCanvas == InitCanvas /\ [][NextCanvas]_vars

\* C1: LSB round trip. decodeMessage applied with the password of the encode
\* call to the image encodeMessage produced returns exactly the message, for
\* every message, password and carrier with room for the payload and the
\* terminator.
C1_LSBRoundTrip ==
  (scheme = "lsb" /\ phase = "decoded" /\ decodePassphrase = passphrase)
    => decoded = <<"ok", secret>>

\* C2: Pattern-LSB and MD5-Pattern round trip. Decoding with the stego key and
\* the password of the encode call the image that encodeMessagePatternLSB
\* (encodeMessageMD5Pattern) produced returns exactly the message.
C2_PatternRoundTrip ==
  (/\ scheme \in {"pattern", "md5pattern"}
   /\ phase = "decoded"
   /\ decodePassphrase = passphrase
   /\ decodeKey = patternKey)
    => decoded = <<"ok", secret>>

\* C6: capacity check of LSB, Pattern-LSB and MD5-Pattern. When the bits of
\* the encrypted payload plus the 40 terminator bits exceed numPixels * 3, the
\* encoder throws the capacity error with no byte of the buffer written, and
\* no image is produced.
C6_CapacityCheck ==
  (/\ phase # "ready"
   /\ Len(textToBinary(sentPayload)) + Len(MESSAGE_TERMINATOR_BINARY)
        > carrier.width * carrier.height * 3)
    => (/\ encodeError = "CapacityExceeded"
        /\ imageData = carrier.data
        /\ stego = NoImage)

\* An encoder has refused a payload that the carrier has no room for.
C6_Witness ==
  /\ phase = "encoded"
  /\ scheme = "lsb"
  /\ encodeError = "CapacityExceeded"
  /\ Len(sentPayload) > 0
  /\ carrier.width * carrier.height * 3 < Len(textToBinary(sentPayload)) + 40

(***************************************************************************)
(* The envelope on its own: one encryptMessage call, then decryptMessage   *)
(* calls on the payload it returned.                                       *)
(***************************************************************************)

InitEnvelope ==
  /\ CrackIdle
  /\ NoPanel
  /\ NoShuffle
  /\ NoUtil
  /\ NoApp
  /\ StegoReady
  /\ scheme = "envelope"
  /\ patternKey = <<>>
  /\ carrier = NoImage

Encrypt ==
  /\ scheme = "envelope" /\ phase = "ready"
  /\ \E draw \in Draws :
       /\ sentPayload' = encryptMessage(secret, passphrase, draw)
       /\ phase' = "encoded"
  /\ UNCHANGED <<scheme, secret, passphrase, patternKey, carrier, imageData, intermediate,
                 stego, encodeError, decodePassphrase, decodeKey, decoded>>
  /\ UNCHANGED <<crackVars, panelVars, shuffleVars, utilVars, appVars>>

Decrypt ==
  /\ scheme = "envelope" /\ phase = "encoded"
  /\ \E password \in DecodePasswords :
       Decoded(decryptMessage(sentPayload, password), password, <<>>)

NextEnvelope ==
  \/ Encrypt
  \/ Decrypt

SpecEnvelope == InitEnvelope /\ [][NextEnvelope]_vars

\* C5: envelope round trip. decryptMessage of what encryptMessage(m, p)
\* returned gives m back under p, and under any other password fails with the
\* authentication failure and returns no message.
C5_EnvelopeRoundTrip ==
  (scheme = "envelope" /\ phase = "decoded")
    => (IF decodePassphrase = passphrase
          THEN decoded = <<"ok", secret>>
          ELSE decoded = <<"error", "AuthenticationFailure">>)

\* C3: Random Dot round trip through the image. decodeRDMessage applied with
\* the password of the encode call to the image encodeRDMessage drew returns
\* exactly the message.
C3_RDRoundTrip ==
  (scheme = "rd" /\ phase = "decoded" /\ decodePassphrase = passphrase)
    => decoded = <<"ok", secret>>

\* C4: Morse round trip through the image. decodeMorseMessage applied with the
\* password of the encode call to the image encodeMorseMessage drew returns
\* exactly the message, also when elements were wrapped to the next row.
C4_MorseRoundTrip ==
  (scheme = "morse" /\ phase = "decoded" /\ decodePassphrase = passphrase)
    => decoded = <<"ok", secret>>

(***************************************************************************)
(* The cracker panel (components/Sidebar.tsx, MD5CrackerMode): the form,   *)
(* the Start and Abort buttons and the click handler that runs the engine. *)
(***************************************************************************)

BRUTE_FORCE_MAX_COMBINATIONS == 50000000

\* useState(6): the max length field at mount.
InitialMaxLength == 6

\* 'abcdefghijklmnopqrstuvwxyz'
LowerCaseLetters == [k \in 1..26 |-> 96 + k]

\* split('').filter((c, i, a) => a.indexOf(c) === i).join('')
RECURSIVE uniqueChars(_, _)
uniqueChars(s, k) ==
  IF k > Len(s) THEN <<>>
  ELSE (IF \E j \in 1..(k - 1) : s[j] = s[k] THEN <<>> ELSE <<s[k]>>) \o uniqueChars(s, k + 1)

\* The charset of the brute-force form.  The A-Z, 0-9 and symbols boxes stay
\* unchecked, as at mount.
bfFullCharset ==
  (IF bfCharsetLower THEN LowerCaseLetters ELSE <<>>)
    \o (IF bfCustomCharset # <<>> THEN uniqueChars(bfCustomCharset, 1) ELSE <<>>)

bfTotalCombinations == calculateBruteForceCombinations(bfFullCharset, bfMaxLength)

\* The loop of the auto-adjust effect: the length it ends with.
RECURSIVE adjustedMaxLength(_, _)
adjustedMaxLength(charset, newMaxLength) ==
  IF calculateBruteForceCombinations(charset, newMaxLength) > BRUTE_FORCE_MAX_COMBINATIONS
       /\ newMaxLength > 0
    THEN adjustedMaxLength(charset, newMaxLength - 1)
    ELSE newMaxLength

\* /^[a-f0-9]{32}$/i.test(h)
matchesHashPattern(h) ==
  /\ Len(h) = 32
  /\ \A k \in 1..32 : h[k] \in (48..57) \cup (97..102) \cup (65..70)

\* String.prototype.toLowerCase over the Basic Latin letters.
toLowerCase(s) == [k \in 1..Len(s) |-> IF s[k] \in 65..90 THEN s[k] + 32 ELSE s[k]]

isHashInvalid == ~matchesHashPattern(targetHash)

\* A Start button that takes any hash.
isStartButtonDisabledAnyHash ==
  IF isLoading THEN TRUE
  ELSE IF attackType = "dictionary" THEN wordlistFile = NoWordlist
  ELSE IF attackType = "bruteforce"
    THEN bfTotalCombinations > BRUTE_FORCE_MAX_COMBINATIONS \/ bfFullCharset = <<>>
  ELSE IF attackType = "rainbow" THEN TRUE
  ELSE FALSE

isStartButtonDisabled ==
  IF isLoading \/ isHashInvalid THEN TRUE
  ELSE IF attackType = "dictionary" THEN wordlistFile = NoWordlist
  ELSE IF attackType = "bruteforce"
    THEN bfTotalCombinations > BRUTE_FORCE_MAX_COMBINATIONS \/ bfFullCharset = <<>>
  ELSE IF attackType = "rainbow" THEN TRUE
  ELSE FALSE

\* Texts typed into the hash field: MD5("b") in lower case, in upper case
\* between blanks, its first 31 characters, and it with a "g".
\* "92eb5ffee6ae2fec3ad71c777531578f" and "92EB5FFEE6AE2FEC3AD71C777531578F"
Hash_b ==
  <<57, 50, 101, 98, 53, 102, 102, 101, 101, 54, 97, 101, 50, 102, 101, 99, 51,
    97, 100, 55, 49, 99, 55, 55, 55, 53, 51, 49, 53, 55, 56, 102>>
Hash_B ==
  <<57, 50, 69, 66, 53, 70, 70, 69, 69, 54, 65, 69, 50, 70, 69, 67, 51, 65, 68,
    55, 49, 67, 55, 55, 55, 53, 51, 49, 53, 55, 56, 70>>
EnteredHashes ==
  {Hash_b, <<32>> \o Hash_B \o <<32>>, SubSeq(Hash_b, 1, 31),
   <<103>> \o SubSeq(Hash_b, 2, 32)}

\* Files of the model: "a\nb\nc".
WordlistFiles == {<<97, 10, 98, 10, 99>>}

\* Texts typed into the custom characters field: "" and "aab".
CustomCharsets == {<<>>, <<97, 97, 98>>}

\* Numbers typed into the max length field.
MaxLengths == (0..MaxLen) \cup {InitialMaxLength}

\* Answers of the model to the AI attack's prompt.
\* ["a", "c", "b"], ["a"] and [" b"].
AiGuessLists == {<<<<97>>, <<99>>, <<98>>>>, <<<<97>>>>, <<<<32, 98>>>>}

\* aiGuesses.join('\n')
RECURSIVE joinLines(_)
joinLines(list) ==
  IF list = <<>> THEN <<>>
  ELSE IF Len(list) = 1 THEN list[1]
  ELSE list[1] \o <<10>> \o joinLines(Tail(list))

\* The panel at mount.
InitPanel ==
  /\ StegoIdle
  /\ CrackIdle
  /\ NoShuffle
  /\ NoUtil
  /\ NoApp
  /\ targetHash = <<>>
  /\ attackType = "dictionary"
  /\ wordlistFile = NoWordlist
  /\ bfCharsetLower = TRUE
  /\ bfCustomCharset = <<>>
  /\ bfMaxLength = InitialMaxLength
  /\ isLoading = FALSE
  /\ crackerResult = "null"
  /\ handler = "idle"
  /\ clicked = <<>>
  /\ abortControllerRef = "null"
  /\ abortRequested = FALSE

\* The form is edited between attacks.  A running handler works on the values
\* of the render it was made in, so under a running attack the model keeps only
\* the edits of the hash field.
\* onChange of the hash field: setTargetHash(e.target.value.trim()); resetAll()
SetTargetHash ==
  /\ \E h \in EnteredHashes : targetHash' = Trim(h)
  /\ crackerResult' = "null"
  /\ UNCHANGED <<attackType, wordlistFile, bfCharsetLower, bfCustomCharset, bfMaxLength,
                 isLoading, handler, clicked, abortControllerRef,
                 abortRequested>>
  /\ UNCHANGED <<crackVars, stegoVars, shuffleVars, utilVars, appVars>>

switchAttackType ==
  /\ handler = "idle"
  /\ \E type \in {"dictionary", "bruteforce", "ai", "rainbow"} : attackType' = type
  /\ crackerResult' = "null"
  /\ UNCHANGED <<targetHash, wordlistFile, bfCharsetLower, bfCustomCharset, bfMaxLength,
                 isLoading, handler, clicked, abortControllerRef,
                 abortRequested>>
  /\ UNCHANGED <<crackVars, stegoVars, shuffleVars, utilVars, appVars>>

handleFileSelect ==
  /\ handler = "idle" /\ attackType = "dictionary"
  /\ \E file \in WordlistFiles : wordlistFile' = file
  /\ crackerResult' = "null"
  /\ UNCHANGED <<targetHash, attackType, bfCharsetLower, bfCustomCharset, bfMaxLength,
                 isLoading, handler, clicked, abortControllerRef,
                 abortRequested>>
  /\ UNCHANGED <<crackVars, stegoVars, shuffleVars, utilVars, appVars>>

\* onChange of the a-z checkbox, of the custom characters field and of the max
\* length field, which the panel shows for the brute-force attack.
SetBruteForceForm ==
  /\ handler = "idle" /\ attackType = "bruteforce"
  /\ \/ /\ bfCharsetLower' = ~bfCharsetLower
        /\ UNCHANGED <<bfCustomCharset, bfMaxLength>>
     \/ /\ \E custom \in CustomCharsets : bfCustomCharset' = custom
        /\ UNCHANGED <<bfCharsetLower, bfMaxLength>>
     \/ /\ \E n \in MaxLengths : bfMaxLength' = n
        /\ UNCHANGED <<bfCharsetLower, bfCustomCharset>>
  /\ UNCHANGED <<targetHash, attackType, wordlistFile, isLoading, crackerResult, handler,
                 clicked, abortControllerRef,
                 abortRequested>>
  /\ UNCHANGED <<crackVars, stegoVars, shuffleVars, utilVars, appVars>>

\* The effect that lowers bfMaxLength while the combinations are too many.
AutoAdjust ==
  /\ attackType = "bruteforce" /\ bfFullCharset # <<>> /\ bfMaxLength # 0
  /\ bfTotalCombinations > BRUTE_FORCE_MAX_COMBINATIONS
  /\ bfMaxLength' = adjustedMaxLength(bfFullCharset, bfMaxLength)
  /\ UNCHANGED <<targetHash, attackType, wordlistFile, bfCharsetLower, bfCustomCharset,
                 isLoading, crackerResult, handler, clicked, abortControllerRef,
                 abortRequested>>
  /\ UNCHANGED <<crackVars, stegoVars, shuffleVars, utilVars, appVars>>

NoJob == [mode |-> "none", targetHash |-> <<>>, wordlist |-> <<>>, charset |-> <<>>,
          maxLength |-> 0]

\* The engine's variables after the handler dropped the last promise (at
\* "idle") or called crackMD5 or bruteForceMD5 (at "start"): a new promise and
\* a new closure.
engineSet(j, at) ==
  /\ job' = j
  /\ pc' = at
  /\ outcome' = "pending"
  /\ result' = <<>>
  /\ checked' = 0
  /\ currentIndex' = 0
  /\ gen' = <<>>
  /\ i' = 0
  /\ batchEnd' = 0
  /\ progress' = <<>>
  /\ tested' = <<>>
  /\ batch' = NoBatch

\* The status for a cancelled job taken from the branch of a null result.
recordedStatusAbortAsNull(settlement) ==
  CASE settlement = "found" -> "found"
    [] settlement = "not_found" -> "not_found"
    [] settlement = "aborted" -> "not_found"
    [] OTHER -> "error"

\* Lines 208-222: the status setResult records for what the awaited promise
\* settled with ("aborted" stands for a rejection named AbortError, anything
\* else but a resolution for another Error).
recordedStatus(settlement) ==
  CASE settlement = "found" -> "found"
    [] settlement = "not_found" -> "not_found"
    [] settlement = "aborted" -> "aborted"
    [] OTHER -> "error"

\* The handler ends: setResult, then finally.  Its closure goes with it.
\* setResult is the setter of the panel the handler was started in (the
\* mounted one when the handler ends within the click, or when the mounted
\* panel's ref holds the handler's controller): once that panel is unmounted
\* the call changes nothing, and the panel mounted since keeps its own result.
handlerEnds(settlement) ==
  /\ crackerResult' = (IF handler = "idle" \/ abortControllerRef = "current"
                         THEN recordedStatus(settlement)
                       ELSE crackerResult)
  /\ isLoading' = FALSE
  /\ handler' = "idle"
  /\ clicked' = <<>>

\* The handler reaches an await.
handlerAwaits(at) ==
  /\ crackerResult' = "null"
  /\ isLoading' = TRUE
  /\ handler' = at
  /\ clicked' = targetHash

\* A brute-force start that checks the charset only.
bruteForceRefusedNoCeiling == bfFullCharset = <<>>

\* Lines 187-188: the two throws before bruteForceMD5.
bruteForceRefused ==
  bfFullCharset = <<>> \/ bfTotalCombinations > BRUTE_FORCE_MAX_COMBINATIONS

\* handleStartCracking up to its first await, or to its end when it throws
\* before one.
handleStartCracking ==
  /\ aborted' = FALSE
  /\ abortControllerRef' = "current"
  /\ abortRequested' = FALSE
  /\ UNCHANGED <<targetHash, attackType, wordlistFile, bfCharsetLower, bfCustomCharset,
                 bfMaxLength>>
  /\ UNCHANGED <<stegoVars, shuffleVars, utilVars, appVars>>
  /\ LET lcTargetHash == toLowerCase(targetHash)
     IN  CASE attackType = "dictionary" ->
                IF wordlistFile = NoWordlist
                  THEN engineSet(NoJob, "idle") /\ handlerEnds("Error")
                  ELSE engineSet(NoJob, "idle") /\ handlerAwaits("reading")
           [] attackType = "bruteforce" ->
                IF bruteForceRefused
                  THEN engineSet(NoJob, "idle") /\ handlerEnds("Error")
                  ELSE /\ engineSet([mode |-> "brute", targetHash |-> lcTargetHash,
                                     wordlist |-> <<>>, charset |-> bfFullCharset,
                                     maxLength |-> bfMaxLength], "start")
                       /\ handlerAwaits("searching")
           [] attackType = "ai" -> engineSet(NoJob, "idle") /\ handlerAwaits("importing")
           [] OTHER -> engineSet(NoJob, "idle") /\ handlerEnds("not_found")

\* A click on the Start button.
ClickStart ==
  /\ ~isStartButtonDisabled
  /\ handleStartCracking

\* handleStartCracking called past a disabled Start button.
CallStart ==
  /\ ~isLoading /\ isStartButtonDisabled
  /\ handleStartCracking

\* wordlistFile.text() resolves: crackMD5 is called.
ReadWordlist ==
  /\ handler = "reading"
  /\ engineSet([mode |-> "dictionary", targetHash |-> toLowerCase(clicked),
                wordlist |-> wordlistFile, charset |-> <<>>, maxLength |-> 0], "start")
  /\ handler' = "searching"
  /\ UNCHANGED <<targetHash, attackType, wordlistFile, bfCharsetLower, bfCustomCharset,
                 bfMaxLength, isLoading, crackerResult, clicked, abortControllerRef,
                 abortRequested, aborted>>
  /\ UNCHANGED <<stegoVars, shuffleVars, utilVars, appVars>>

\* getAIPasswordGuesses, await import('@google/genai') (line 124, outside the
\* try): the import fails and the handler ends with its Error, or it resolves,
\* the request is sent and the abort listener is added (lines 132-145).  A
\* listener added to a signal that is aborted already is never called.
AiImport ==
  /\ handler = "importing"
  /\ \/ /\ handlerEnds("Error")
     \/ /\ handler' = (IF aborted THEN "generatingUnheard" ELSE "generating")
        /\ UNCHANGED <<isLoading, crackerResult, clicked>>
  /\ UNCHANGED <<targetHash, attackType, wordlistFile, bfCharsetLower, bfCustomCharset,
                 bfMaxLength, abortControllerRef,
                 abortRequested>>
  /\ UNCHANGED <<crackVars, stegoVars, shuffleVars, utilVars, appVars>>

\* getAIPasswordGuesses settles (lines 147-171).  With the listener heard, an
\* abort rejects the race with an AbortError; without an abort the request
\* fails or its answer is no array of strings (another Error), or the guesses
\* come, with which crackMD5 is called.  With the abort unheard the race waits
\* for the request: its answer meets signal.aborted (AbortError), its failure
\* is rethrown as another Error.
AiAnswer ==
  /\ handler \in {"generating", "generatingUnheard"}
  /\ \/ /\ aborted
        /\ handlerEnds("aborted")
        /\ UNCHANGED crackVars
     \/ /\ ~aborted \/ handler = "generatingUnheard"
        /\ handlerEnds("Error")
        /\ UNCHANGED crackVars
     \/ /\ ~aborted
        /\ \E aiGuesses \in AiGuessLists :
             engineSet([mode |-> "dictionary", targetHash |-> toLowerCase(clicked),
                        wordlist |-> joinLines(aiGuesses), charset |-> <<>>,
                        maxLength |-> 0], "start")
        /\ handler' = "searching"
        /\ UNCHANGED <<isLoading, crackerResult, aborted, clicked>>
  /\ UNCHANGED <<targetHash, attackType, wordlistFile, bfCharsetLower, bfCustomCharset,
                 bfMaxLength, abortControllerRef,
                 abortRequested>>
  /\ UNCHANGED <<stegoVars, shuffleVars, utilVars, appVars>>

\* A click on the Abort button, which the panel shows while loading.  The
\* click is a task of its own: it runs while the handler waits for the file,
\* for the guesses or for a timer of the engine.  It aborts the controller
\* the mounted panel's ref holds, if it holds one (lines 229-233).
handleAbort ==
  /\ isLoading /\ handler # "idle"
  /\ pc \in {"idle", "timer"}
  /\ ~aborted
  /\ abortRequested' = TRUE
  /\ aborted' = (abortControllerRef = "current")
  /\ UNCHANGED <<job, pc, outcome, result, checked, currentIndex, gen, i, batchEnd,
                 progress, tested, batch>>
  /\ UNCHANGED <<targetHash, attackType, wordlistFile, bfCharsetLower, bfCustomCharset,
                 bfMaxLength, isLoading, crackerResult, handler, clicked,
                 abortControllerRef>>
  /\ UNCHANGED <<stegoVars, shuffleVars, utilVars, appVars>>

\* The engine's promise has settled: the handler runs on from its await and
\* ends, and nothing holds the promise or the engine's closure any more.
Report ==
  /\ handler = "searching" /\ pc = "settled"
  /\ handlerEnds(outcome)
  /\ engineSet(NoJob, "idle")
  /\ UNCHANGED <<targetHash, attackType, wordlistFile, bfCharsetLower, bfCustomCharset,
                 bfMaxLength, abortControllerRef, abortRequested,
                 aborted>>
  /\ UNCHANGED <<stegoVars, shuffleVars, utilVars, appVars>>

NextPanel ==
  \/ SetTargetHash
  \/ switchAttackType
  \/ handleFileSelect
  \/ SetBruteForceForm
  \/ AutoAdjust
  \/ ClickStart
  \/ ReadWordlist
  \/ AiImport
  \/ AiAnswer
  \/ BatchBegin
  \/ DictStep
  \/ DictBatchEnd
  \/ BruteStep
  \/ BruteBatchEnd
  \/ handleAbort
  \/ Report

SpecPanel == InitPanel /\ [][NextPanel]_vars

NextPanelAnyCall ==
  \/ NextPanel
  \/ CallStart

SpecPanelAnyCall == InitPanel /\ [][NextPanelAnyCall]_vars

(***************************************************************************)
(* Properties of the panel and of the jobs it runs.                        *)
(***************************************************************************)

\* C11: a job settles once, in one outcome: it is settled exactly when its
\* outcome is no longer pending, and from then on its outcome and result stay,
\* no batch begins, no candidate is hashed and onProgress is not called, until
\* the handler takes the outcome and ends.  The handler records the status
\* the outcome stands for: 'aborted' only under an aborted signal, for a job
\* that was rejected or for guesses that were, and 'not_found' only for a job
\* that resolved with null after its last candidate.
C11_JobLifecycle ==
  /\ []((pc = "settled") = (outcome # "pending"))
  /\ [][/\ pc = "settled" =>
             \/ /\ pc' = "settled"
                /\ UNCHANGED <<job, outcome, result, checked, progress, tested, batch>>
             \/ /\ pc' = "idle"
                /\ handler = "searching" /\ handler' = "idle"
                /\ crackerResult' = outcome
        /\ (crackerResult' = "aborted" /\ crackerResult # "aborted") =>
             /\ aborted
             /\ outcome = "aborted" \/ handler \in {"generating", "generatingUnheard"}
        /\ (crackerResult' = "not_found" /\ crackerResult # "not_found") =>
             /\ handler = "searching"
             /\ outcome = "not_found"
             /\ Len(tested) = total
             /\ \A k \in 1..Len(tested) : md5(tested[k]) # job.targetHash
        /\ (crackerResult' = "found" /\ crackerResult # "found") =>
             /\ outcome = "found"
             /\ md5(result) = job.targetHash
       ]_vars

\* A cancelled brute-force job whose status the panel shows.
C11_Witness ==
  /\ attackType = "bruteforce"
  /\ handler = "idle"
  /\ crackerResult = "aborted"
  /\ aborted

\* The characters of the job's charset are distinct.
CharsetDistinct ==
  \A a, b \in 1..Len(job.charset) : job.charset[a] = job.charset[b] => a = b

\* C12: a brute-force job whose signal is never aborted settles.  It settles
\* found, with a word of the target's digest, when some non-empty string over
\* the charset of length at most maxLength has that digest; otherwise it
\* settles not_found, having tested every such string exactly once.
C12_BruteForceTerminates ==
  /\ (job.mode = "brute") ~> (pc = "settled")
  /\ [](job.mode = "brute" /\ pc = "settled" /\ CharsetDistinct =>
          IF \E w \in Candidates(job.charset, job.maxLength) : md5(w) = job.targetHash
            THEN /\ outcome = "found"
                 /\ md5(result) = job.targetHash
                 /\ result \in Candidates(job.charset, job.maxLength)
            ELSE /\ outcome = "not_found"
                 /\ Len(tested) = Cardinality(Candidates(job.charset, job.maxLength))
                 /\ \A w \in Candidates(job.charset, job.maxLength) :
                      Cardinality({k \in 1..Len(tested) : tested[k] = w}) = 1)

\* The job over "ab" up to length MaxLen for a digest none of its strings
\* has, run to its end.
C12_Witness ==
  /\ job.mode = "brute" /\ job.charset = <<97, 98>> /\ job.maxLength = MaxLen
  /\ ~aborted
  /\ outcome = "not_found"
  /\ Len(tested) = calculateBruteForceCombinations(job.charset, job.maxLength)

\* C13: no brute-force job exists over an empty charset or with more than
\* BRUTE_FORCE_MAX_COMBINATIONS combinations, and a call of the handler for
\* such an attack ends with status 'error', without a job and without a
\* candidate hashed, however the call came about.
C13_AttackSizeCeiling ==
  /\ [](job.mode = "brute" =>
          /\ job.charset # <<>>
          /\ calculateBruteForceCombinations(job.charset, job.maxLength)
               <= BRUTE_FORCE_MAX_COMBINATIONS)
  /\ [][(/\ attackType = "bruteforce"
         /\ bfFullCharset = <<>> \/ bfTotalCombinations > BRUTE_FORCE_MAX_COMBINATIONS
         /\ handleStartCracking)
        => /\ crackerResult' = "error"
           /\ job' = NoJob /\ pc' = "idle"
           /\ tested' = <<>> /\ progress' = <<>>
           /\ ~isLoading']_vars

\* The handler was called for a-z with max length 6 and refused.
C13_Witness ==
  /\ attackType = "bruteforce"
  /\ bfFullCharset = LowerCaseLetters /\ bfMaxLength = InitialMaxLength
  /\ bfTotalCombinations > BRUTE_FORCE_MAX_COMBINATIONS
  /\ crackerResult = "error"
  /\ job = NoJob

\* C14: while the handler of a Start click runs, the hash of the click's
\* render matches /^[a-f0-9]{32}$/i, and every job the handler starts,
\* by crackMD5 for the dictionary and the AI attack or by bruteForceMD5,
\* searches for the lower-cased form of that hash: 32 characters of 0-9, a-f.
C14_TargetHashPrecondition ==
  /\ handler # "idle" => matchesHashPattern(clicked)
  /\ job.mode # "none" =>
       /\ handler = "searching"
       /\ job.targetHash = toLowerCase(clicked)
       /\ Len(job.targetHash) = 32
       /\ \A k \in 1..32 : job.targetHash[k] \in (48..57) \cup (97..102)

\* The dictionary attack on the upper-case text of MD5("b") has found "b".
C14_Witness ==
  /\ attackType = "dictionary"
  /\ clicked = Hash_B
  /\ job.targetHash = Hash_b
  /\ outcome = "found" /\ result = <<98>>

(***************************************************************************)
(* Decoders on input that no encoder of the run made: a file or a payload  *)
(* the user received.                                                      *)
(***************************************************************************)

\* Width and height of the received images.
ReceivedWidth == 9
ReceivedHeight == 3

\* An opaque image of w by h pixels whose R, G and B bytes carry bits in
\* buffer order, and 1 where bits has ended.
imageOfBits(w, h, bits) ==
  [width |-> w, height |-> h,
   data |-> [k \in 1..(4 * w * h) |->
               IF k % 4 = 0 THEN 255
               ELSE LET place == 3 * ((k - 1) \div 4) + ((k - 1) % 4) + 1
                    IN  254 + (IF place <= Len(bits) THEN bits[place] ELSE 1)] \o <<>>]

\* What the received images carry: nothing but 0s; nothing but 1s; before a
\* terminator the byte FF, the text "A", the three bits 101, the text "B"
\* (which ends in a 0), the bytes C3 28, a byte order mark, and the text
\* "a:b:c".
ReceivedBits ==
  {<<>> \o [k \in 1..(3 * ReceivedWidth * ReceivedHeight) |-> 0],
   <<>>,
   <<1, 1, 1, 1, 1, 1, 1, 1>> \o MESSAGE_TERMINATOR_BINARY,
   textToBinary(<<65>>) \o MESSAGE_TERMINATOR_BINARY,
   <<1, 0, 1>> \o MESSAGE_TERMINATOR_BINARY,
   textToBinary(<<66>>) \o MESSAGE_TERMINATOR_BINARY,
   <<1, 1, 0, 0, 0, 0, 1, 1, 0, 0, 1, 0, 1, 0, 0, 0>> \o MESSAGE_TERMINATOR_BINARY,
   textToBinary(<<65279>>) \o MESSAGE_TERMINATOR_BINARY,
   textToBinary(<<97, 58, 98, 58, 99>>) \o MESSAGE_TERMINATOR_BINARY}

\* The received images, and one of 3 by 3 pixels, too few for a terminator.
ReceivedImages ==
  {imageOfBits(ReceivedWidth, ReceivedHeight, bits) : bits \in ReceivedBits}
    \cup {imageOfBits(3, 3, [k \in 1..27 |-> 0])}

\* The payload encryptMessage made of "hi" under "correct-horse", and the one
\* it made with another salt and IV.
Payload_hi == encryptMessage(Msg_hi, Pwd_correct_horse, <<Salt1, Iv1>>)
Payload_hi2 == encryptMessage(Msg_hi, Pwd_correct_horse, <<Salt2, Iv2>>)

\* Received payloads: "", "abc", "a:b", "a:b:c:d", "::", "YQ==:YQ==:YQ==",
\* "a:b:c", a payload of encryptMessage, that payload before ":", and the salt
\* and IV of that payload before the ciphertext of another.
ReceivedPayloads ==
  {<<>>, <<97, 98, 99>>, <<97, 58, 98>>, <<97, 58, 98, 58, 99, 58, 100>>, <<58, 58>>,
   <<89, 81, 61, 61, 58, 89, 81, 61, 61, 58, 89, 81, 61, 61>>,
   <<97, 58, 98, 58, 99>>,
   Payload_hi,
   Payload_hi \o <<58>>,
   SubSeq(Payload_hi, 1, 42) \o SubSeq(Payload_hi2, 43, Len(Payload_hi2))}

InitReceived ==
  /\ CrackIdle
  /\ NoPanel
  /\ NoShuffle
  /\ NoUtil
  /\ NoApp
  /\ scheme \in {"lsb", "pattern", "md5pattern", "envelope"}
  /\ secret = <<>>
  /\ passphrase = <<>>
  /\ patternKey = <<>>
  /\ carrier = NoImage
  /\ imageData = <<>>
  /\ sentPayload \in (IF scheme = "envelope" THEN ReceivedPayloads ELSE {<<>>})
  /\ intermediate = <<>>
  /\ stego \in (IF scheme = "envelope" THEN {NoImage} ELSE ReceivedImages)
  /\ encodeError = "none"
  /\ decodePassphrase = <<>>
  /\ decodeKey = <<>>
  /\ decoded = <<"pending">>
  /\ phase = "received"

\* A decode call on the received image.
DecodeReceived ==
  /\ phase = "received"
  /\ \/ /\ scheme = "lsb"
        /\ \E password \in EncodePasswords :
             \E r \in {decodeMessage(stego, password)} : Decoded(r, password, <<>>)
     \/ /\ scheme = "pattern"
        /\ \E password \in EncodePasswords, stegoKey \in StegoKeys :
             \E r \in {decodeMessagePatternLSB(stego, stegoKey, password)} :
               Decoded(r, password, stegoKey)
     \/ /\ scheme = "md5pattern"
        /\ \E password \in EncodePasswords, stegoKey \in StegoKeys :
             \E r \in {decodeMessageMD5Pattern(stego, stegoKey, password)} :
               Decoded(r, password, stegoKey)

\* A decryptMessage call on the received payload.
DecryptReceived ==
  /\ phase = "received" /\ scheme = "envelope"
  /\ \E password \in DecodePasswords :
       Decoded(decryptMessage(sentPayload, password), password, <<>>)

NextReceived ==
  \/ DecodeReceived
  \/ DecryptReceived

SpecReceived == InitReceived /\ [][NextReceived]_vars

\* The bits the decoder of the scheme reads from the received image with the
\* stego key of the call: the LSBs of R, G and B, pixel by pixel in buffer
\* order or in the order the key gives.
ScannedBits ==
  LET numPixels == stego.width * stego.height
      order == IF scheme = "lsb" THEN [q \in 1..numPixels |-> q - 1]
               ELSE IF scheme = "pattern" THEN pixelOrder(numPixels, stringToSeed(decodeKey))
               ELSE pixelOrder(numPixels, md5KeyToSeed(decodeKey))
  IN  [k \in 1..(3 * numPixels) |->
         stego.data[4 * order[((k - 1) \div 3) + 1] + ((k - 1) % 3) + 1] % 2] \o <<>>

\* 40 zero bits end at place e of bits.
ZeroWindowEnds(bits, e) ==
  /\ e >= 40 /\ e <= Len(bits)
  /\ \A k \in (e - 39)..e : bits[k] = 0

C16_DecryptFailures ==
  (phase = "decoded" /\ scheme = "envelope") =>
    LET colons == {k \in 1..Len(sentPayload) : sentPayload[k] = CRYPTO_PAYLOAD_DELIMITER}
    IN  IF Cardinality(colons) # 2 THEN decoded = <<"error", "InvalidFormat">>
        ELSE LET c1 == CHOOSE k \in colons : \A j \in colons : k <= j
                 c2 == CHOOSE k \in colons : \A j \in colons : j <= k
                 salt == base64ToArrayBuffer(SubSeq(sentPayload, 1, c1 - 1))
                 iv == base64ToArrayBuffer(SubSeq(sentPayload, c1 + 1, c2 - 1))
                 ciphertext == base64ToArrayBuffer(SubSeq(sentPayload, c2 + 1, Len(sentPayload)))
             IN  /\ decoded # <<"error", "InvalidFormat">>
                 /\ (salt[1] = "ok" /\ iv[1] = "ok" /\ ciphertext[1] = "ok") =>
                      IF \E e \in AesGcmKnown :
                           /\ e[1] = stringToArrayBuffer(decodePassphrase)
                           /\ e[2] = salt[2] /\ e[3] = iv[2] /\ e[5] = ciphertext[2]
                        THEN decoded[1] = "ok"
                        ELSE decoded = <<"error", "AuthenticationFailure">>

\* decryptMessage has refused, under the password of the sender, a payload
\* whose ciphertext belongs to another salt and IV.
C16_Witness ==
  /\ phase = "decoded" /\ scheme = "envelope"
  /\ sentPayload = SubSeq(Payload_hi, 1, 42) \o SubSeq(Payload_hi2, 43, Len(Payload_hi2))
  /\ decodePassphrase = Pwd_correct_horse
  /\ decoded = <<"error", "AuthenticationFailure">>

\* C17: what encryptMessage returns has exactly two ':'; the three segments
\* between them are not empty and atob takes each; the first is the 16 bytes
\* of a salt and the second the 12 bytes of an IV that getRandomValues gave
\* the call; and btoa of the three decoded segments, joined by ':', is the
\* string again.
C17_EnvelopeFormat ==
  (scheme = "envelope" /\ phase # "ready") =>
    LET colons == {k \in 1..Len(sentPayload) : sentPayload[k] = CRYPTO_PAYLOAD_DELIMITER}
        c1 == CHOOSE k \in colons : \A j \in colons : k <= j
        c2 == CHOOSE k \in colons : \A j \in colons : j <= k
        seg1 == SubSeq(sentPayload, 1, c1 - 1)
        seg2 == SubSeq(sentPayload, c1 + 1, c2 - 1)
        seg3 == SubSeq(sentPayload, c2 + 1, Len(sentPayload))
        salt == base64ToArrayBuffer(seg1)
        iv == base64ToArrayBuffer(seg2)
        ciphertext == base64ToArrayBuffer(seg3)
    IN  /\ Cardinality(colons) = 2
        /\ seg1 # <<>> /\ seg2 # <<>> /\ seg3 # <<>>
        /\ salt[1] = "ok" /\ iv[1] = "ok" /\ ciphertext[1] = "ok"
        /\ Len(salt[2]) = CRYPTO_SALT_NUM_BYTES
        /\ Len(iv[2]) = CRYPTO_IV_NUM_BYTES
        /\ <<salt[2], iv[2]>> \in Draws
        /\ arrayBufferToBase64(salt[2]) \o <<CRYPTO_PAYLOAD_DELIMITER>>
             \o arrayBufferToBase64(iv[2]) \o <<CRYPTO_PAYLOAD_DELIMITER>>
             \o arrayBufferToBase64(ciphertext[2]) = sentPayload

\* encryptMessage has returned the payload of "hi" under "correct-horse" with
\* the first salt and IV.
C17_Witness ==
  /\ scheme = "envelope" /\ phase = "encoded"
  /\ secret = Msg_hi /\ passphrase = Pwd_correct_horse
  /\ sentPayload = encryptMessage(Msg_hi, Pwd_correct_horse, <<Salt1, Iv1>>)

(***************************************************************************)
(* The secondary entries of Random Dot and Morse: decoding the string     *)
(* encode returned besides the image.                                      *)
(***************************************************************************)

\* C18: Random Dot secondary entry. decryptRDMessageFromBinary applied with
\* the password of the encode call to the binary string encodeRDMessage
\* returned gives exactly the message back, which is also what decoding the
\* image it drew gives.
C18_RDFromBinary ==
  (scheme = "rd" /\ phase = "decodedFromText" /\ decodePassphrase = passphrase)
    => /\ decoded = <<"ok", secret>>
       /\ decoded = decodeRDMessage(stego, passphrase)

\* C19: Morse secondary entry. decryptMorseMessageFromHex applied with the
\* password of the encode call to the hex string encodeMorseMessage returned
\* gives exactly the message back, and a hex string of odd length is
\* rejected with an error.
C19_MorseFromHex ==
  /\ (scheme = "morse" /\ phase = "decodedFromText" /\ decodePassphrase = passphrase)
       => decoded = <<"ok", secret>>
  /\ (scheme = "morse" /\ phase = "decodedFromCutText")
       => decoded = <<"error", "FromHexFailed", "OddLength">>

(***************************************************************************)
(* The seeded shuffle (utils.ts): calls of seededShuffle on the indices of *)
(* an image, with the seed the pattern schemes derive from a stego key or  *)
(* with a seed given as a number.                                          *)
(***************************************************************************)

\* The longest index array of the model, and the number of calls followed.
MaxShuffle == 12
MaxCalls == 2

\* "zzzzzzz": its stringToSeed hash leaves 32 bits.
Key_z7 == <<122, 122, 122, 122, 122, 122, 122>>
ShuffleKeys == StegoKeys \cup {Key_z7}

\* Seeds given as a number: -1 and 2^31 - 1.
GivenSeeds == {-1, 2147483647}

InitShuffle ==
  /\ CrackIdle
  /\ StegoIdle
  /\ NoPanel
  /\ NoUtil
  /\ NoApp
  /\ shuffleLength \in 0..MaxShuffle
  /\ shuffleKey \in ShuffleKeys
  /\ shuffles = <<>>

\* pixelIndices = seededShuffle(pixelIndices, seed) on the indices of the image.
Shuffled(seed) ==
  /\ Len(shuffles) < MaxCalls
  /\ shuffles' = Append(shuffles, [seed |-> seed, result |-> pixelOrder(shuffleLength, seed)])
  /\ UNCHANGED <<shuffleLength, shuffleKey>>
  /\ UNCHANGED <<crackVars, stegoVars, panelVars, utilVars, appVars>>

\* The shuffle of the Pattern LSB scheme: the seed is stringToSeed(stegoKey).
ShufflePattern == \E seed \in {stringToSeed(shuffleKey)} : Shuffled(seed)

\* The shuffle of the MD5 Pattern scheme: the seed is md5KeyToSeed(stegoKey).
ShuffleMD5Pattern == \E seed \in {md5KeyToSeed(shuffleKey)} : Shuffled(seed)

\* A call with a seed given as a number.
ShuffleGivenSeed == \E seed \in GivenSeeds : Shuffled(seed)

NextShuffle ==
  \/ ShufflePattern
  \/ ShuffleMD5Pattern
  \/ ShuffleGivenSeed

SpecShuffle == InitShuffle /\ [][NextShuffle]_vars

\* list holds every index of [0, n) exactly once.
IsPermutation(list, n) ==
  /\ Len(list) = n
  /\ \A v \in 0..(n - 1) : Cardinality({k \in 1..n : list[k] = v}) = 1

Text_abc == <<97, 98, 99>>
Text_password == <<112, 97, 115, 115, 119, 111, 114, 100>>
Text_message_digest == <<109, 101, 115, 115, 97, 103, 101, 32, 100, 105, 103, 101, 115, 116>>
Text_hello_world == <<104, 101, 108, 108, 111, 32, 119, 111, 114, 108, 100>>
Text_a_to_p == [k \in 1..16 |-> 96 + k] \o <<>>
Text_grinning == <<55357, 56832>>
Text_y56 == [k \in 1..56 |-> 121] \o <<>>
Text_z65 == [k \in 1..65 |-> 122] \o <<>>
UtilTexts ==
  {<<>>, Msg_a, Msg_hi, Text_abc, Text_password, Text_message_digest, Text_hello_world,
   Text_a_to_p, <<48>>, <<97, 0, 98>>, Msg_e_acute, <<255>>, <<8364>>, Text_grinning,
   Msg_bom_hi, Text_y56, Text_z65}

InitUtil ==
  /\ CrackIdle
  /\ StegoIdle
  /\ NoPanel
  /\ NoShuffle
  /\ NoApp
  /\ utilText \in UtilTexts
  /\ utilFn = "none"
  /\ utilArg = <<>>
  /\ utilRet = <<>>

\* The end of a call of the utility fn on arg that returned ret.
Returned(fn, arg, ret) ==
  /\ utilFn' = fn
  /\ utilArg' = arg
  /\ utilRet' = ret
  /\ UNCHANGED utilText
  /\ UNCHANGED <<crackVars, stegoVars, panelVars, shuffleVars, appVars>>

\* textToBinary(text)
CallTextToBinary ==
  /\ utilFn = "none"
  /\ Returned("textToBinary", utilText, textToBinary(utilText))

\* binaryToText on the string textToBinary returned
CallBinaryToText ==
  /\ utilFn = "textToBinary"
  /\ Returned("binaryToText", utilRet, binaryToText(utilRet))

\* md5(text)
CallMd5 ==
  /\ utilFn = "none"
  /\ Returned("md5", utilText, md5(utilText))

\* md2(text)
CallMd2 ==
  /\ utilFn = "none"
  /\ Returned("md2", utilText, md2(utilText))

\* md4(text)
CallMd4 ==
  /\ utilFn = "none"
  /\ Returned("md4", utilText, md4(utilText))

\* sha224(text)
CallSha224 ==
  /\ utilFn = "none"
  /\ Returned("sha224", utilText, sha224(utilText))

NextUtil ==
  \/ CallTextToBinary
  \/ CallBinaryToText
  \/ CallMd5
  \/ CallMd2
  \/ CallMd4
  \/ CallSha224

SpecUtil == InitUtil /\ [][NextUtil]_vars

\* C21: bit serialization round trip. textToBinary(s) is a string of the
\* characters 0 and 1, eight for every byte of the UTF-8 encoding of s, the
\* most significant bit of each byte first, and binaryToText gives s back
\* from it.
C21_BitRoundTrip ==
  /\ utilFn = "textToBinary"
       => LET bytes == stringToArrayBuffer(utilText)
          IN  /\ Len(utilRet) = 8 * Len(bytes)
              /\ \A k \in 1..Len(utilRet) : utilRet[k] \in {0, 1}
              /\ \A b \in 1..Len(bytes) :
                   bytes[b] = 128 * utilRet[8 * b - 7] + 64 * utilRet[8 * b - 6]
                              + 32 * utilRet[8 * b - 5] + 16 * utilRet[8 * b - 4]
                              + 8 * utilRet[8 * b - 3] + 4 * utilRet[8 * b - 2]
                              + 2 * utilRet[8 * b - 1] + utilRet[8 * b]
  /\ utilFn = "binaryToText" => utilRet = utilText

\* "d41d8cd98f00b204e9800998ecf8427e" and "5f4dcc3b5aa765d61d8327deb882cf99"
Digest_d41d ==
  <<100, 52, 49, 100, 56, 99, 100, 57, 56, 102, 48, 48, 98, 50, 48, 52, 101, 57, 56, 48,
    48, 57, 57, 56, 101, 99, 102, 56, 52, 50, 55, 101>>
Digest_5f4d ==
  <<53, 102, 52, 100, 99, 99, 51, 98, 53, 97, 97, 55, 54, 53, 100, 54, 49, 100, 56, 51,
    50, 55, 100, 101, 98, 56, 56, 50, 99, 102, 57, 57>>

\* C22: MD5 reference values. md5("") is d41d8cd98f00b204e9800998ecf8427e and
\* md5("password") is 5f4dcc3b5aa765d61d8327deb882cf99, the additions of the
\* computation being made modulo 2^32.
C22_MD5ReferenceValues ==
  /\ (utilFn = "md5" /\ utilText = <<>>) => utilRet = Digest_d41d
  /\ (utilFn = "md5" /\ utilText = Text_password) => utilRet = Digest_5f4d

\* md5("password") has returned.
C22_Witness ==
  /\ utilFn = "md5"
  /\ utilText = Text_password
  /\ Len(utilRet) = 32

\* The characters 0-9 and a-f.
LowerHexDigits == (48..57) \cup (97..102)

\* C23: digest format. md2, md4 and md5 return 32 characters and sha224
\* returns 56, each of them a lowercase hexadecimal digit, whatever the text.
C23_DigestFormat ==
  /\ utilFn \in {"md2", "md4", "md5"} => Len(utilRet) = 32
  /\ utilFn = "sha224" => Len(utilRet) = 56
  /\ utilFn \in {"md2", "md4", "md5", "sha224"}
       => \A k \in 1..Len(utilRet) : utilRet[k] \in LowerHexDigits

\* |charset|^1 + ... + |charset|^m, term by term.
RECURSIVE SumOfPowers(_, _)
SumOfPowers(n, m) == IF m <= 0 THEN 0 ELSE SumOfPowers(n, m - 1) + n ^ m

\* C24: the total of a brute-force job is the sum of |charset|^i for i in
\* 1..maxLength, 0 for an empty charset or maxLength <= 0, and it is the number
\* of candidates the job enumerates: checked never exceeds total, and a job
\* that exhausts its candidates has counted total of them and reports
\* checked = total last.
C24_CombinationCount ==
  job.mode = "brute"
  => /\ total = (IF job.charset = <<>> \/ job.maxLength <= 0 THEN 0
                 ELSE SumOfPowers(Len(job.charset), job.maxLength))
     /\ checked <= total
     /\ outcome = "not_found"
          => /\ checked = total
             /\ Len(tested) = total
             /\ Last(progress) = total

\* The guesses the running job's word list was joined from.
AiGuessesOf == CHOOSE g \in AiGuessLists : joinLines(g) = job.wordlist

\* C25: an AI attack, once it has the guesses, is a dictionary job over them:
\* it tests the guesses in list order and its result is the first guess in
\* list order whose MD5 is the target, or not found when no guess has it; and
\* an attack cancelled while the guesses are being generated ends with status
\* 'aborted' without a candidate hashed.
C25_AiAttack ==
  /\ [](attackType = "ai" /\ handler = "searching" =>
          /\ job.mode = "dictionary"
          /\ job.targetHash = toLowerCase(clicked)
          /\ \E g \in AiGuessLists : joinLines(g) = job.wordlist
          /\ Len(tested) <= Len(AiGuessesOf)
          /\ \A k \in 1..Len(tested) : tested[k] = AiGuessesOf[k]
          /\ outcome = "found" =>
                \E k \in 1..Len(AiGuessesOf) :
                  /\ result = AiGuessesOf[k]
                  /\ md5(AiGuessesOf[k]) = job.targetHash
                  /\ \A j \in 1..(k - 1) : md5(AiGuessesOf[j]) # job.targetHash
          /\ outcome = "not_found" =>
                \A k \in 1..Len(AiGuessesOf) : md5(AiGuessesOf[k]) # job.targetHash)
  /\ [][(/\ handler \in {"importing", "generating", "generatingUnheard"}
         /\ aborted
         /\ handler' = "idle")
        => /\ crackerResult' = "aborted"
           /\ tested' = <<>>]_vars

\* after is before with the bits written: bit b in the least significant bit
\* of channel b % 3 of pixel b \div 3, and every other bit as it was.
LsbFrame(before, after, bits) ==
  /\ Len(after) = Len(before)
  /\ \A k \in 1..Len(before) :
       LET channel == (k - 1) % 4
           b == 3 * ((k - 1) \div 4) + channel
       IN  IF channel < 3 /\ b < Len(bits)
             THEN /\ after[k] \div 2 = before[k] \div 2
                  /\ after[k] % 2 = bits[b + 1]
             ELSE after[k] = before[k]

\* C26: LSB encode frame. encodeMessage and lsbEncodeRawPayload, writing the L
\* bits of the payload and the terminator, store bit i in the least
\* significant bit of channel i mod 3 of pixel floor(i / 3) and change nothing
\* else: the alpha bytes, the upper seven bits of every byte and the pixels
\* from ceil(L / 3) on stay as they are in the carrier, whose size the image
\* keeps.
C26_LSBEncodeFrame ==
  (scheme = "lsb" /\ phase # "ready" /\ encodeError = "none")
    => /\ LsbFrame(carrier.data, imageData,
                    textToBinary(sentPayload) \o MESSAGE_TERMINATOR_BINARY)
       /\ stego = [width |-> carrier.width, height |-> carrier.height, data |-> imageData]

\* A payload has been written whose last pixel takes fewer than three bits,
\* with pixels left after it, and some byte of the carrier has changed.
C26_Witness ==
  /\ scheme = "lsb" /\ phase = "encoded" /\ encodeError = "none"
  /\ (Len(textToBinary(sentPayload)) + Len(MESSAGE_TERMINATOR_BINARY)) % 3 # 0
  /\ Len(textToBinary(sentPayload)) + Len(MESSAGE_TERMINATOR_BINARY)
       < 3 * carrier.width * carrier.height - 3
  /\ imageData # carrier.data

\* The seed the scheme derives from a stego key.
patternSeed(stegoKey) ==
  IF scheme = "pattern" THEN stringToSeed(stegoKey) ELSE md5KeyToSeed(stegoKey)

\* The index (from 1) of the byte that holds bit b (from 0) under perm.
patternByteOf(perm, b) == 4 * perm[(b \div 3) + 1] + (b % 3) + 1

\* C27: pattern addressing. With perm = seededShuffle([0, numPixels),
\* seed(key)), the pattern encoders store bit i in the least significant bit of
\* channel i mod 3 of pixel perm[floor(i / 3)] and change no other bit of the
\* buffer; a decoder given the same key visits the least significant bits in
\* that order, so the first L bits of its reading are the L bits written, and
\* what it returns is what these bits give; and after the capacity check the
\* encoder never throws 'image data exhausted'.
C27_PatternAddressing ==
  (scheme \in {"pattern", "md5pattern"} /\ phase # "ready")
    => /\ encodeError # "Exhausted"
       /\ encodeError = "none" =>
            \A bits \in {textToBinary(sentPayload) \o MESSAGE_TERMINATOR_BINARY} :
            \A perm \in {pixelOrder(carrier.width * carrier.height,
                                     patternSeed(patternKey))} :
            \A writtenBytes \in {{patternByteOf(perm, b) : b \in 0..(Len(bits) - 1)}} :
            \A reading \in {patternBits(stego.data, perm)} :
              /\ stego = [width |-> carrier.width, height |-> carrier.height,
                          data |-> imageData]
              /\ Len(imageData) = Len(carrier.data)
              /\ \A b \in 0..(Len(bits) - 1) :
                   imageData[patternByteOf(perm, b)] % 2 = bits[b + 1]
              /\ \A k \in 1..Len(imageData) :
                   /\ imageData[k] \div 2 = carrier.data[k] \div 2
                   /\ imageData[k] # carrier.data[k] => k \in writtenBytes
              /\ \A b \in 1..Len(bits) : reading[b] = bits[b]
              /\ (phase = "decoded" /\ decodeKey = patternKey)
                   => decoded = decodeExtracted(bits, decodePassphrase)

\* A pattern image has been decoded with the key it was encoded with, and the
\* pixel the first bits went to is not the first pixel of the buffer.
C27_Witness ==
  /\ scheme \in {"pattern", "md5pattern"}
  /\ phase = "decoded" /\ encodeError = "none"
  /\ decodeKey = patternKey
  /\ imageData # carrier.data
  /\ pixelOrder(carrier.width * carrier.height, patternSeed(patternKey))[1] # 0

(***************************************************************************)
(* The application: the sidebar's choice of a tool, the loading flag the   *)
(* tools share, and the Universal Decoder's analysis of an image.          *)
(***************************************************************************)

\* loadImageToCanvas: the pixels of an image file on a canvas of its size.
loadImageToCanvas(file) ==
  [width |-> file.width, height |-> file.height,
   rows |-> [y \in 1..file.height |->
               [x \in 1..file.width |->
                  [c \in 1..4 |-> file.data[4 * ((y - 1) * file.width + (x - 1)) + c]]
                    \o <<>>] \o <<>>] \o <<>>]

\* canvas.toDataURL('image/png') saved as a file: the pixels of the canvas,
\* row by row.
pngOfCanvas(canvas) ==
  [width |-> canvas.width, height |-> canvas.height,
   data |-> [k \in 1..(4 * canvas.width * canvas.height) |->
               canvas.rows[(((k - 1) \div 4) \div canvas.width) + 1]
                          [(((k - 1) \div 4) % canvas.width) + 1][((k - 1) % 4) + 1]]
             \o <<>>]

\* DECODING_METHODS, in its order.
DECODING_METHODS ==
  <<[name |-> "LSB", requiresKey |-> FALSE],
    [name |-> "RD Pattern", requiresKey |-> FALSE],
    [name |-> "Morse Pattern", requiresKey |-> FALSE],
    [name |-> "Pattern LSB", requiresKey |-> TRUE],
    [name |-> "MD5 Pattern", requiresKey |-> TRUE]>>

\* Line 144: the func of the method at place m called on the file, with the
\* stego key first where the method requires one.
decodeFn(m, file, stegoKey, password) ==
  CASE m = 1 -> decodeMessage(file, password)
    [] m = 2 -> CHOOSE r \in {decodeRDMessage(canvas, password) :
                                 canvas \in {loadImageToCanvas(file)}} : TRUE
    [] m = 3 -> CHOOSE r \in {decodeMorseMessage(canvas, password) :
                                 canvas \in {loadImageToCanvas(file)}} : TRUE
    [] m = 4 -> decodeMessagePatternLSB(file, stegoKey, password)
    [] m = 5 -> decodeMessageMD5Pattern(file, stegoKey, password)

\* A loop that passes the methods it skips without a log entry.
RECURSIVE considerFromUnlogged(_, _, _)
considerFromUnlogged(log, m, stegoKey) ==
  IF m > Len(DECODING_METHODS) THEN <<log, m>>
  ELSE IF DECODING_METHODS[m].requiresKey /\ stegoKey = <<>>
    THEN considerFromUnlogged(log, m + 1, stegoKey)
  ELSE <<log, m>>

\* Lines 137-141 of runImageAnalysis run on from the method at place m: every
\* method that requires the stego key is skipped with a log entry while there
\* is no key.  <<the log, the place of the method whose decodeFn is called
\* next>>, the place being past the last method when the loop ends.
RECURSIVE considerFrom(_, _, _)
considerFrom(log, m, stegoKey) ==
  IF m > Len(DECODING_METHODS) THEN <<log, m>>
  ELSE IF DECODING_METHODS[m].requiresKey /\ stegoKey = <<>>
    THEN considerFrom(Append(log, [method |-> DECODING_METHODS[m].name,
                                   result |-> "Skipped"]), m + 1, stegoKey)
  ELSE <<log, m>>

\* A Start button of the decoder that looks at the image only.
decoderProcessButtonDisabledNoLoading == imageFile = NoImage

\* Line 206, for the image input: isProcessButtonDisabled of the decoder.
decoderProcessButtonDisabled == isLoading \/ imageFile = NoImage

\* Lines 209-222 of SteganographyMode: isProcessButtonDisabled for a form that
\* is complete or not.
stegoProcessButtonDisabled(formIncomplete) == isLoading \/ formIncomplete

\* The cracker's panel does not change.
PanelFormStays ==
  UNCHANGED <<targetHash, attackType, wordlistFile, bfCharsetLower, bfCustomCharset,
              bfMaxLength, crackerResult, handler, clicked, abortControllerRef,
              abortRequested>>

\* The decoder's form does not change.
DecoderFormStays == UNCHANGED <<imageFile, decoderPassword, decoderStegoKey>>

\* handleRunAnalysis ends (lines 100-116): finally sets the loading flag.  The
\* closure goes with it; the report stays with the decoder it was started in
\* while that is mounted.
analysisEnds(report) ==
  /\ isLoading' = FALSE
  /\ analysis' = "idle"
  /\ methodIndex' = 0
  /\ IF decoderControllerRef = "current"
       THEN /\ newReport' = report
            /\ UNCHANGED <<imageFile, decoderPassword, decoderStegoKey, analysisAborted,
                           decoderControllerRef>>
       ELSE /\ newReport' = EmptyReport
            /\ analysisAborted' = FALSE
            /\ imageFile' = NoImage
            /\ decoderPassword' = <<>>
            /\ decoderStegoKey' = <<>>
            /\ UNCHANGED decoderControllerRef

\* A click on the decoder's Start button: handleRunAnalysis up to its first
\* await, that of analyzeImageWithAI in runImageAnalysis (lines 78-93, 119-126).
handleRunAnalysis ==
  /\ hubMode = "AutoDecode"
  /\ ~decoderProcessButtonDisabled
  /\ isLoading' = TRUE
  /\ decoderControllerRef' = "current"
  /\ analysisAborted' = FALSE
  /\ newReport' = EmptyReport
  /\ analysis' = "ai"
  /\ methodIndex' = 0
  /\ DecoderFormStays
  /\ PanelFormStays
  /\ UNCHANGED <<hubMode, stegoHandler>>
  /\ UNCHANGED <<crackVars, stegoVars, shuffleVars, utilVars>>

\* analyzeImageWithAI settles with a result or with an Error (lines 125-132);
\* under an aborted signal the analysis ends here, else the loop over the
\* methods begins and LSB's decodeFn is called.
AiForensics ==
  /\ analysis = "ai"
  /\ \E ai \in {"result", "failed"} :
       \E report \in {[newReport EXCEPT !.aiAnalysis = ai]} :
         IF analysisAborted
           THEN analysisEnds(report)
           ELSE /\ newReport' = report
                /\ analysis' = "decoding"
                /\ methodIndex' = 1
                /\ UNCHANGED <<isLoading, analysisAborted, decoderControllerRef>>
                /\ DecoderFormStays
  /\ PanelFormStays
  /\ UNCHANGED <<hubMode, stegoHandler>>
  /\ UNCHANGED <<crackVars, stegoVars, shuffleVars, utilVars>>

\* The decodeFn of the method at methodIndex settles (lines 142-157).  With a
\* message the analysis ends; with an Error the entry is Failed and, unless
\* the signal is aborted, the loop goes on to the next method whose decodeFn
\* it calls, or to its end.
TryMethod ==
  /\ analysis = "decoding"
  /\ \E decodedMessage \in {decodeFn(methodIndex, imageFile, decoderStegoKey,
                                      decoderPassword)} :
       IF decodedMessage[1] = "ok"
         THEN analysisEnds(
                [newReport EXCEPT
                   !.decodingLog = Append(@, [method |-> DECODING_METHODS[methodIndex].name,
                                              result |-> "Success"]),
                   !.finalResult = <<"string", decodedMessage[2]>>,
                   !.detectedMethod = DECODING_METHODS[methodIndex].name])
       ELSE \E failed \in {Append(newReport.decodingLog,
                                  [method |-> DECODING_METHODS[methodIndex].name,
                                   result |-> "Failed"])} :
              IF analysisAborted
                THEN analysisEnds([newReport EXCEPT !.decodingLog = failed])
              ELSE \E on \in {considerFrom(failed, methodIndex + 1, decoderStegoKey)} :
                     IF on[2] > Len(DECODING_METHODS)
                       THEN analysisEnds([newReport EXCEPT !.decodingLog = on[1]])
                       ELSE /\ newReport' = [newReport EXCEPT !.decodingLog = on[1]]
                            /\ methodIndex' = on[2]
                            /\ UNCHANGED <<isLoading, analysis, analysisAborted,
                                           decoderControllerRef>>
                            /\ DecoderFormStays
  /\ PanelFormStays
  /\ UNCHANGED <<hubMode, stegoHandler>>
  /\ UNCHANGED <<crackVars, stegoVars, shuffleVars, utilVars>>

\* A click on the decoder's Abort button (lines 208-212), which aborts the
\* controller the mounted decoder's ref holds.
decoderHandleAbort ==
  /\ hubMode = "AutoDecode"
  /\ isLoading /\ analysis # "idle"
  /\ decoderControllerRef = "current"
  /\ ~analysisAborted
  /\ analysisAborted' = TRUE
  /\ UNCHANGED <<hubMode, stegoHandler, imageFile, decoderPassword, decoderStegoKey, analysis,
                 methodIndex, newReport, decoderControllerRef>>
  /\ UNCHANGED <<crackVars, stegoVars, panelVars, shuffleVars, utilVars>>

(***************************************************************************)
(* The application: a tool is chosen in the sidebar, and the tool rendered *)
(* runs its operation under the loading flag of App.                       *)
(***************************************************************************)

\* The sidebar entries of the model: the Universal Decoder, one of the
\* steganography tools and the MD5 cracker.
HubModes == {"AutoDecode", "LSB", "MD5Cracker"}

\* App at mount (part_005, lines 8-9): the hub renders the Universal Decoder,
\* nothing is loading.  A tool that is not rendered holds the state it mounts
\* with.
InitApp ==
  /\ CrackIdle
  /\ StegoIdle
  /\ NoShuffle
  /\ NoUtil
  /\ targetHash = <<>>
  /\ attackType = "dictionary"
  /\ wordlistFile = NoWordlist
  /\ bfCharsetLower = TRUE
  /\ bfCustomCharset = <<>>
  /\ bfMaxLength = InitialMaxLength
  /\ isLoading = FALSE
  /\ crackerResult = "null"
  /\ handler = "idle"
  /\ clicked = <<>>
  /\ abortControllerRef = "null"
  /\ abortRequested = FALSE
  /\ hubMode = "AutoDecode"
  /\ stegoHandler = "idle"
  /\ DecoderAtMount

\* A click on a sidebar entry: setMode(mode.id).  The hub renders the tool of
\* the new mode in place of the one it rendered (UnifiedHub.renderContent):
\* the tool left is unmounted and its state and refs go, the tool entered
\* mounts with its initial state.  A handler of the tool left that is running
\* runs on, on the values and the controller it holds; App's loading flag is
\* not touched.
setMode ==
  /\ \E to \in HubModes \ {hubMode} : hubMode' = to
  /\ IF hubMode = "MD5Cracker"
       THEN /\ targetHash' = <<>>
            /\ attackType' = "dictionary"
            /\ wordlistFile' = NoWordlist
            /\ bfCharsetLower' = TRUE
            /\ bfCustomCharset' = <<>>
            /\ bfMaxLength' = InitialMaxLength
            /\ crackerResult' = "null"
            /\ abortControllerRef' = "null"
       ELSE UNCHANGED <<targetHash, attackType, wordlistFile, bfCharsetLower,
                        bfCustomCharset, bfMaxLength, crackerResult, abortControllerRef>>
  /\ IF hubMode = "AutoDecode" /\ analysis = "idle"
       THEN /\ imageFile' = NoImage
            /\ decoderPassword' = <<>>
            /\ decoderStegoKey' = <<>>
            /\ newReport' = EmptyReport
            /\ analysisAborted' = FALSE
            /\ decoderControllerRef' = "null"
       ELSE /\ decoderControllerRef' = (IF hubMode = "AutoDecode" THEN "null"
                                        ELSE decoderControllerRef)
            /\ UNCHANGED <<imageFile, decoderPassword, decoderStegoKey, newReport,
                           analysisAborted>>
  /\ UNCHANGED <<isLoading, handler, clicked, abortRequested, stegoHandler, analysis,
                 methodIndex>>
  /\ UNCHANGED <<crackVars, stegoVars, shuffleVars, utilVars>>

\* The hash field and the attack type of the mounted cracker are edited: the
\* hash is MD5("b") or empty, the attack the dictionary or the AI attack.
EditCrackerForm ==
  /\ hubMode = "MD5Cracker"
  /\ SetTargetHash \/ switchAttackType
  /\ targetHash' \in {<<>>, Hash_b}
  /\ attackType' \in {"dictionary", "ai"}

\* A click on the mounted cracker's Start button.
CrackerStart ==
  /\ hubMode = "MD5Cracker"
  /\ ClickStart

\* A click on the mounted cracker's Abort button.
CrackerAbort ==
  /\ hubMode = "MD5Cracker"
  /\ handleAbort

\* handleFileSelect of the mounted decoder, between analyses: setImageFile,
\* resetState.
decoderHandleFileSelect ==
  /\ hubMode = "AutoDecode" /\ analysis = "idle"
  /\ imageFile' = carrierImage(3, 3)
  /\ newReport' = EmptyReport
  /\ UNCHANGED <<hubMode, stegoHandler, decoderPassword, decoderStegoKey, analysis,
                 methodIndex, analysisAborted, decoderControllerRef>>
  /\ UNCHANGED <<crackVars, stegoVars, panelVars, shuffleVars, utilVars>>

\* A click on the Process button of the mounted steganography tool:
\* handleProcess up to the await of handleEncrypt or handleDecrypt (lines
\* 82-95), whose work the codecs' specifications model.
handleProcess ==
  /\ hubMode = "LSB"
  /\ \E formIncomplete \in BOOLEAN : ~stegoProcessButtonDisabled(formIncomplete)
  /\ isLoading' = TRUE
  /\ stegoHandler' = "processing"
  /\ PanelFormStays
  /\ UNCHANGED <<hubMode, imageFile, decoderPassword, decoderStegoKey, analysis, methodIndex,
                 newReport, analysisAborted, decoderControllerRef>>
  /\ UNCHANGED <<crackVars, stegoVars, shuffleVars, utilVars>>

\* handleEncrypt or handleDecrypt returns or throws: catch and finally of
\* handleProcess (lines 97-102).
ProcessEnds ==
  /\ stegoHandler = "processing"
  /\ isLoading' = FALSE
  /\ stegoHandler' = "idle"
  /\ PanelFormStays
  /\ UNCHANGED <<hubMode, imageFile, decoderPassword, decoderStegoKey, analysis, methodIndex,
                 newReport, analysisAborted, decoderControllerRef>>
  /\ UNCHANGED <<crackVars, stegoVars, shuffleVars, utilVars>>

NextApp ==
  \/ setMode
  \/ EditCrackerForm
  \/ CrackerStart
  \/ AiImport
  \/ AiAnswer
  \/ BatchBegin
  \/ DictStep
  \/ DictBatchEnd
  \/ CrackerAbort
  \/ Report
  \/ decoderHandleFileSelect
  \/ handleRunAnalysis
  \/ AiForensics
  \/ TryMethod
  \/ decoderHandleAbort
  \/ handleProcess
  \/ ProcessEnds

\* Every await of a running handler settles and the engine's timers fire: the
\* import and the request of the AI attack, the batches of a job, the forensic
\* request and the decoders of an analysis, the codec of a steganography tool.
SpecApp ==
  /\ InitApp
  /\ [][NextApp]_vars
  /\ WF_vars(AiImport)
  /\ WF_vars(AiAnswer)
  /\ WF_vars(BatchBegin)
  /\ WF_vars(DictBatchEnd)
  /\ WF_vars(Report)
  /\ WF_vars(AiForensics)
  /\ WF_vars(TryMethod)
  /\ WF_vars(ProcessEnds)
  /\ LoopRuns

(***************************************************************************)
(* The Universal Decoder on its own: one image, one password and one stego *)
(* key in the form, and the analyses run on them.                          *)
(***************************************************************************)

\* The draw of the images the decoder is given.
DecoderDraw == <<Salt2, Iv2>>

\* "hi" under "correct-horse" in an image of each method: LSB, RD Pattern,
\* Morse Pattern, Pattern LSB and MD5 Pattern, the last two under "key-1".
File_lsb ==
  encodeMessage(carrierImage(CarrierWidth, CarrierHeight), Msg_hi, Pwd_correct_horse,
                DecoderDraw).image
File_rd == pngOfCanvas(encodeRDMessage(Msg_hi, Pwd_correct_horse, DecoderDraw).image)
File_morse == pngOfCanvas(encodeMorseMessage(Msg_hi, Pwd_correct_horse, DecoderDraw).image)
File_pattern ==
  encodeMessagePatternLSB(carrierImage(CarrierWidth, CarrierHeight), Msg_hi, Key_1,
                          Pwd_correct_horse, DecoderDraw).image
File_md5pattern ==
  encodeMessageMD5Pattern(carrierImage(CarrierWidth, CarrierHeight), Msg_hi, Key_1,
                          Pwd_correct_horse, DecoderDraw).image

\* What the form holds when an analysis is started: <<image, password, stego
\* key>>.  The carrier and the images made from it go with every password (the
\* right one, a wrong one, none) and every key (none, the right one, another
\* one); the images of the canvas methods, which are larger, go without a key.
DecoderForms ==
  ({carrierImage(3, 3), File_lsb, File_pattern, File_md5pattern}
     \X {Pwd_correct_horse, Pwd_wrong, <<>>} \X {<<>>, Key_1, Key_k})
  \cup ({File_rd, File_morse} \X {Pwd_correct_horse, <<>>} \X {<<>>})

InitUniversal ==
  /\ CrackIdle
  /\ StegoIdle
  /\ NoPanel
  /\ NoShuffle
  /\ NoUtil
  /\ hubMode = "AutoDecode"
  /\ stegoHandler = "idle"
  /\ \E form \in DecoderForms :
       /\ imageFile = form[1]
       /\ decoderPassword = form[2]
       /\ decoderStegoKey = form[3]
  /\ analysis = "idle"
  /\ methodIndex = 0
  /\ newReport = EmptyReport
  /\ analysisAborted = FALSE
  /\ decoderControllerRef = "null"

NextUniversal ==
  \/ handleRunAnalysis
  \/ AiForensics
  \/ TryMethod
  \/ decoderHandleAbort

SpecUniversal == InitUniversal /\ [][NextUniversal]_vars

\* C30: the log of an analysis of an image holds one entry per method
\* considered, in the order LSB, RD Pattern, Morse Pattern, Pattern LSB, MD5
\* Pattern: Skipped for a method that requires the stego key while there is
\* none, else Success if the method's decoder returns a message for the form's
\* image, key and password and Failed if it throws.  Only the last entry can
\* be a Success: while a decoder is awaited it is that of the method after the
\* last entry and the log holds no Success, and an analysis that ended without
\* a Success and without an abort has considered all five.  finalResult and
\* detectedMethod are set exactly when the last entry is a Success, to the
\* message that method's decoder returned and to that method's name.
C30_MethodSequence ==
  \A log \in {newReport.decodingLog} :
    /\ Len(log) <= 5
    /\ \A k \in 1..Len(log) :
         /\ log[k].method
              = <<"LSB", "RD Pattern", "Morse Pattern", "Pattern LSB", "MD5 Pattern">>[k]
         /\ IF k >= 4 /\ decoderStegoKey = <<>>
              THEN log[k].result = "Skipped"
              ELSE \A r \in {decodeFn(k, imageFile, decoderStegoKey, decoderPassword)} :
                     /\ log[k].result = (IF r[1] = "ok" THEN "Success" ELSE "Failed")
                     /\ log[k].result = "Success"
                          => newReport.finalResult = <<"string", r[2]>>
         /\ log[k].result = "Success"
              => /\ k = Len(log)
                 /\ analysis = "idle"
                 /\ newReport.detectedMethod = log[k].method
    /\ analysis = "decoding"
         => /\ methodIndex = Len(log) + 1
            /\ ~(methodIndex >= 4 /\ decoderStegoKey = <<>>)
    /\ analysis = "ai" => log = <<>>
    /\ (analysis = "idle" /\ newReport.aiAnalysis # "null" /\ ~analysisAborted
          /\ newReport.finalResult = <<"null">>)
         => Len(log) = 5
    /\ newReport.finalResult # <<"null">>
         <=> (log # <<>> /\ log[Len(log)].result = "Success")
    /\ newReport.detectedMethod # "null"
         <=> (log # <<>> /\ log[Len(log)].result = "Success")

\* An analysis has ended with its fifth entry a Success, the four before it
\* Failed.
C30_Witness ==
  /\ analysis = "idle"
  /\ Len(newReport.decodingLog) = 5
  /\ \A k \in 1..4 : newReport.decodingLog[k].result = "Failed"
  /\ newReport.decodingLog[5].result = "Success"
  /\ newReport.detectedMethod = "MD5 Pattern"
  /\ newReport.finalResult = <<"string", Msg_hi>>

\* C28: while a job started from the cracker is running, a click on the
\* cracker's Abort button sets the cancel token the job polls, whatever the
\* user did since the start, switching tools and back included; and a job
\* whose engine runs under such a request ends rejected as aborted.
C28_AbortReachesJob ==
  /\ []((handler # "idle" /\ abortRequested) => aborted)
  /\ (handler = "searching" /\ abortRequested) ~> (outcome = "aborted")

\* C29: at most one of the search handler, the steganography handler and the
\* analysis is in flight; the loading flag is set while one is; every start
\* control is disabled while the flag is set; and a set flag is always cleared
\* again.
C29_SingleOperation ==
  /\ [](\A inFlight \in {{op \in {"search", "stego", "analysis"} :
                            \/ op = "search" /\ handler # "idle"
                            \/ op = "stego" /\ stegoHandler # "idle"
                            \/ op = "analysis" /\ analysis # "idle"}} :
          /\ Cardinality(inFlight) <= 1
          /\ inFlight # {} => isLoading
          /\ isLoading => /\ isStartButtonDisabled
                          /\ decoderProcessButtonDisabled
                          /\ \A formIncomplete \in BOOLEAN :
                               stegoProcessButtonDisabled(formIncomplete))
  /\ isLoading ~> ~isLoading

\* A job runs on after the cracker was left for the Universal Decoder, whose
\* Start button the loading flag alone disables: an image is chosen.
C29_Witness ==
  /\ isLoading /\ handler = "searching" /\ pc = "timer"
  /\ hubMode = "AutoDecode"
  /\ imageFile # NoImage
  /\ analysis = "idle" /\ stegoHandler = "idle"

====
